---- MODULE Spec2Model ----
(***************************************************************************)
(* The trade-ingestion pipeline of insiderwatch: the poll cycle            *)
(* (ProcessTrades), the per-trade worker (processTrade) with its           *)
(* persistence calls, and the alert path (sendAlert).  A step of a worker   *)
(* is one access to shared state (a table, the worker pool, a wallet       *)
(* lock) together with the local computation and the upstream calls next   *)
(* to it.  Amounts are whole USD, timestamps are Unix seconds, prices and  *)
(* scores are exact fractions <<numerator, denominator>>.                  *)
(***************************************************************************)
EXTENDS Integers, Sequences, FiniteSets, Bags, TLC

\* ------------------------------------------------------------------ bounds
MaxBatch == 2      \* trades the upstream returns in one poll
MaxCycles == 2      \* poll cycles
MaxTicks == 2      \* clock advances
MaxFaults == 1      \* injected persistence failures (SpecFault only)
MaxCallers == 2     \* goroutines that call Wait on one limiter
MaxCalls == 1       \* Wait calls of one goroutine
MaxLimTicks == 5    \* span of the limiter's history clock, in ticks

\* ----------------------------------------------------------- configuration
BigTradeUSD          == 10000
MinTradeUSD          == 5000
NewWalletDaysMax     == 7
SuspicionScoreWarn   == 5000
SuspicionScoreAlert  == 10000
NetPositionWindowHrs == 24
AlertCooldownMins    == 60
TimeToCloseHoursMax  == 48
\* WALLET_LOOKUP_WORKERS, set below its default of 5 so that a batch can
\* exhaust the pool
WalletLookupWorkers  == 2
\* the velocity and cluster settings have no default in the configuration
\* loader; the values are those of a deployment that enables both
VelocityWindowMinutes == 60
VelocityThreshold    == 3
EnableVelocityDetection == TRUE
EnableClusterDetection  == TRUE
\* MIN_WIN_RATE_THRESHOLD 0.75 as a fraction
MinWinRateThreshold  == <<3, 4>>

SecPerDay  == 86400
SecPerHour == 3600
\* time.Now().AddDate(0, 2, 0): two calendar months, 59 to 62 days
TwoMonthsSec == 60 * SecPerDay
MarketTTL == 86400

\* ------------------------------------------------------------------- clock
Now0    == 19676 * SecPerDay
TickSec == (AlertCooldownMins * 60) \div 2

\* -------------------------------------------------------- exact fractions
RECURSIVE GCD(_, _)
GCD(a, b) == IF b = 0 THEN a ELSE GCD(b, a % b)

Abs(x) == IF x < 0 THEN -x ELSE x

\* Go integer division truncates toward zero
TruncDiv(a, b) == IF a >= 0 THEN a \div b ELSE -((-a) \div b)

Frac(n, d) == LET g == GCD(Abs(n), d) IN IF g = 0 THEN <<0, 1>> ELSE <<n \div g, d \div g>>

FMul(x, y) ==
    LET g1 == GCD(Abs(x[1]), y[2])
        g2 == GCD(Abs(y[1]), x[2])
        a == IF g1 = 0 THEN x[1] ELSE x[1] \div g1
        d == IF g1 = 0 THEN y[2] ELSE y[2] \div g1
        c == IF g2 = 0 THEN y[1] ELSE y[1] \div g2
        b == IF g2 = 0 THEN x[2] ELSE x[2] \div g2
    IN  Frac(a * c, b * d)

FGeq(x, y) == x[1] * y[2] >= y[1] * x[2]
FGt(x, y)  == x[1] * y[2] > y[1] * x[2]
FOne == <<1, 1>>

\* ----------------------------------------------------------------- strings
\* category strings are sequences of characters
Upper == <<"A","B","C","D","E","F","G","H","I","J","K","L","M","N","O","P","Q","R","S","T","U","V","W","X","Y","Z">>
Lower == <<"a","b","c","d","e","f","g","h","i","j","k","l","m","n","o","p","q","r","s","t","u","v","w","x","y","z">>
ToLowerCh(c) == IF \E i \in 1..26 : Upper[i] = c
                THEN Lower[CHOOSE i \in 1..26 : Upper[i] = c] ELSE c
ToLower(s) == [i \in 1..Len(s) |-> ToLowerCh(s[i])]
Contains(s, sub) ==
    \E i \in 1..(Len(s) - Len(sub) + 1) : SubSeq(s, i, i + Len(sub) - 1) = sub

excludedCategories == {
    <<"s","p","o","r","t","s">>, <<"n","f","l">>, <<"n","b","a">>, <<"m","l","b">>,
    <<"n","h","l">>, <<"s","o","c","c","e","r">>, <<"f","o","o","t","b","a","l","l">>,
    <<"b","a","s","k","e","t","b","a","l","l">>, <<"b","a","s","e","b","a","l","l">>,
    <<"h","o","c","k","e","y">>, <<"m","m","a">>, <<"u","f","c">>,
    <<"b","o","x","i","n","g">>, <<"t","e","n","n","i","s">>, <<"g","o","l","f">>,
    <<"r","a","c","i","n","g">>, <<"f","1">>, <<"n","a","s","c","a","r">> }

isNotInsiderCategory(category) ==
    IF category = <<>> THEN FALSE
    ELSE \E excluded \in excludedCategories : Contains(ToLower(category), excluded)

\* ---------------------------------------------------------------- universe
Wallets == {"wA"}
Politics == <<"P","o","l","i","t","i","c","s">>

\* the trades the upstream can return.  Trade 2 is trade 1 again (the same
\* event listed twice); trades 1 and 3 are of one wallet in one market and
\* one ledger window; trade 3 has no transaction hash and no usdcSize.
Trades == <<
  [proxyWallet |-> "wA", side |-> "BUY",  conditionId |-> "m1", size |-> 100000,
   price |-> <<1, 2>>, timestamp |-> Now0 - 3600, outcome |-> "YES",
   transactionHash |-> "tx1", usdcSize |-> 50000],
  [proxyWallet |-> "wA", side |-> "BUY",  conditionId |-> "m1", size |-> 100000,
   price |-> <<1, 2>>, timestamp |-> Now0 - 3600, outcome |-> "YES",
   transactionHash |-> "tx1", usdcSize |-> 50000],
  [proxyWallet |-> "wA", side |-> "SELL", conditionId |-> "m1", size |-> 50000,
   price |-> <<9, 10>>, timestamp |-> Now0 - 1800, outcome |-> "YES",
   transactionHash |-> "", usdcSize |-> 0] >>

Worker == 1..Len(Trades)

\* what the activity upstream answers for a wallet when it answers: the
\* timestamp of the wallet's earliest event
FirstActivityTS(address) == Now0 - 3600 - 8 * SecPerDay

\* ActivityEvent.GetFromAddress is a placeholder that returns ""
GetFromAddress(activityTS) == ""

\* ---------------------------------------------------------- pure functions
\* a fingerprint is a tuple: the transaction hash alone, or the fields the
\* SHA-256 digest is computed over
calculateTradeHash(trade) ==
    IF trade.transactionHash # "" THEN <<trade.transactionHash>>
    ELSE <<"sha256", trade.proxyWallet, trade.conditionId, trade.timestamp,
           trade.size, trade.price>>

calculateNotional(trade) ==
    IF trade.usdcSize > 0 THEN trade.usdcSize
    ELSE (trade.size * trade.price[1]) \div trade.price[2]

max(a, b) == IF a > b THEN a ELSE b

\* variant: the base score divides by walletAgeDays + 1
calculateSuspicionScorePlusOne(notional, walletAgeDays, secsToClose) ==
    LET baseScore == Frac(notional, walletAgeDays + 1)
        H == TimeToCloseHoursMax * SecPerHour
    IN  IF secsToClose > 0 /\ secsToClose <= H
        THEN FMul(baseScore, Frac(H + 4 * (H - secsToClose), H))
        ELSE baseScore

\* hoursToClose is passed as seconds: hours = secsToClose / 3600
calculateSuspicionScore(notional, walletAgeDays, secsToClose) ==
    LET baseScore == Frac(notional, max(walletAgeDays, 1))
        H == TimeToCloseHoursMax * SecPerHour
    IN  IF secsToClose > 0 /\ secsToClose <= H
        THEN FMul(baseScore, Frac(H + 4 * (H - secsToClose), H))
        ELSE baseScore

\* variant: a score equal to a threshold gets the lower label
determineSeverityStrict(score) ==
    IF FGt(score, <<SuspicionScoreAlert, 1>>) THEN "ALERT"
    ELSE IF FGt(score, <<SuspicionScoreWarn, 1>>) THEN "WARN"
    ELSE "INFO"

determineSeverity(score) ==
    IF FGeq(score, <<SuspicionScoreAlert, 1>>) THEN "ALERT"
    ELSE IF FGeq(score, <<SuspicionScoreWarn, 1>>) THEN "WARN"
    ELSE "INFO"

\* ------------------------------------------------------------------- state
VARIABLES
    now,                \* time.Now().Unix()
    app_state,          \* app_state row last_processed_ts (0 when absent)
    trades_seen,        \* bag of trades_seen rows, primary key trade_hash
    wallets,            \* wallet_address -> wallets row or NoRow
    alerts,             \* sequence of alerts rows, in insertion (id) order
    wallet_market_net,  \* <<wallet, condition, window start>> -> row or NoRow
    market_map,         \* condition_id -> market_map row or NoRow
    sent,               \* payloads handed to alertSender.Send, in order
    workerPool,         \* permits in the workerPool channel
    walletLocks,        \* address -> worker holding the per-wallet mutex, 0 if free
    cyc,                \* ProcessTrades: phase, cycles run, checkpoint read, batch
    pc,                 \* position of the goroutine started for each trade
    loc,                \* local variables of each goroutine
    eff,                \* history: persisted writes and sends of each goroutine, in order
    dispatched,         \* history: trades dispatched to a worker so far
    failed,             \* history: trades whose run ended in an error before the insert
    faults,             \* persistence failures injected so far
    shutdown,           \* main: "none", or "cancelled" once cancel() was called
    limiter,            \* a ratelimit.Limiter, its clock and its callers
    scoring,            \* one scoring of processTrade on given snapshots
    recon,              \* the win-rate reconciler: its tables and its run
    unit,               \* one call of a function on given arguments
    undelivered         \* history: the calls of alertSender.Send that returned an error

\* the state outside the pipeline
outside == <<limiter, scoring, recon, unit, undelivered>>

tables == <<trades_seen, wallets, alerts, wallet_market_net, market_map>>
vars == <<now, app_state, trades_seen, wallets, alerts, wallet_market_net, market_map,
          sent, workerPool, walletLocks, cyc, pc, loc, eff, dispatched, failed, faults, shutdown, outside>>

NoRow == [none |-> TRUE]
NoInfo == [category |-> <<>>, endDate |-> 0, liquidityNum |-> 0]

Conditions == {Trades[w].conditionId : w \in Worker}

windowStartTS(ts) ==
    LET windowHrs == NetPositionWindowHrs
    IN  (ts \div (windowHrs * 3600)) * (windowHrs * 3600)

NetKeys == {<<Trades[w].proxyWallet, Trades[w].conditionId, windowStartTS(Trades[w].timestamp)>> : w \in Worker}
NetKey(trade) == <<trade.proxyWallet, trade.conditionId, windowStartTS(trade.timestamp)>>

LocInit == [marketInfo |-> NoInfo, wallet |-> NoRow, isFirstTrade |-> FALSE,
            existingPos |-> NoRow, found |-> FALSE, severity |-> "INFO",
            err |-> "", idem |-> FALSE]

\* the state of the pipeline
pipeline == <<now, app_state, trades_seen, wallets, alerts, wallet_market_net, market_map,
              sent, workerPool, walletLocks, cyc, pc, loc, eff, dispatched, failed, faults,
              shutdown>>

\* no limiter and no scoring under observation
NoLimiter == [none |-> TRUE]
NoScoring == [none |-> TRUE]
NoRecon == [none |-> TRUE]
NoUnit == [none |-> TRUE]

PipelineInit ==
    /\ now = Now0
    /\ app_state = 0
    /\ trades_seen = EmptyBag
    /\ wallets = [a \in Wallets |-> NoRow]
    /\ alerts = <<>>
    /\ wallet_market_net = [k \in NetKeys |-> NoRow]
    /\ market_map = [c \in Conditions |-> NoRow]
    /\ sent = <<>>
    /\ workerPool = WalletLookupWorkers
    /\ walletLocks = [a \in Wallets |-> 0]
    /\ cyc = [phase |-> "idle", n |-> 0, lastProcessedTS |-> 0, batch |-> {}, err |-> ""]
    /\ pc = [w \in Worker |-> "idle"]
    /\ loc = [w \in Worker |-> LocInit]
    /\ eff = [w \in Worker |-> <<>>]
    /\ dispatched = {}
    /\ failed = {}
    /\ faults = 0
    /\ shutdown = "none"

Init ==
    /\ PipelineInit
    /\ limiter = NoLimiter
    /\ scoring = NoScoring
    /\ recon = NoRecon
    /\ unit = NoUnit
    /\ undelivered = <<>>

\* ------------------------------------------------------------- persistence
\* the rows of trades_seen that satisfy a WHERE clause, as a bag
Where(rows) == [r \in rows |-> trades_seen[r]]

\* variant: the lookup by trade_hash matches no row
RowsWithHashNoMatch(tradeHash) == Where({})

\* WHERE trade_hash = ?
RowsWithHash(tradeHash) == Where({r \in BagToSet(trades_seen) : r.trade_hash = tradeHash})

HasTradeSeen(tradeHash) == BagCardinality(RowsWithHash(tradeHash)) > 0

TradeRecord(trade) ==
    [trade_hash |-> calculateTradeHash(trade), transaction_hash |-> trade.transactionHash,
     condition_id |-> trade.conditionId, proxy_wallet |-> trade.proxyWallet,
     timestamp_sec |-> trade.timestamp, notional_usd |-> calculateNotional(trade),
     side |-> trade.side, outcome |-> trade.outcome]

GetWallet(address) == wallets[address]

\* variant: Create writes the struct as given, a zero TotalTrades stays 0
WalletCreateRowAsGiven(wallet) == wallet

\* the row gorm's Create writes for a Wallet struct: a zero TotalTrades carries
\* the tag default:1, so the column default is written and set in the struct
WalletCreateRow(wallet) ==
    [wallet EXCEPT !.total_trades = IF @ = 0 THEN 1 ELSE @]

\* variant: the update subtracts the struct's counters
UpsertWalletMinus(tbl, wallet) ==
    IF tbl[wallet.wallet_address] = NoRow
    THEN [tbl EXCEPT ![wallet.wallet_address] = WalletCreateRow(wallet)]
    ELSE [tbl EXCEPT ![wallet.wallet_address] =
            [@ EXCEPT !.total_trades = @ - wallet.total_trades,
                      !.total_volume_usd = @ - wallet.total_volume_usd,
                      !.last_activity_ts = wallet.last_activity_ts]]

\* UpsertWallet: insert when no row exists, otherwise add the struct's
\* counters to the stored ones
UpsertWallet(tbl, wallet) ==
    IF tbl[wallet.wallet_address] = NoRow
    THEN [tbl EXCEPT ![wallet.wallet_address] = WalletCreateRow(wallet)]
    ELSE [tbl EXCEPT ![wallet.wallet_address] =
            [@ EXCEPT !.total_trades = @ + wallet.total_trades,
                      !.total_volume_usd = @ + wallet.total_volume_usd,
                      !.last_activity_ts = wallet.last_activity_ts]]

\* GetLastAlertForWallet: ORDER BY created_ts DESC, first row
GetLastAlertForWallet(wallet) ==
    LET mine == {i \in 1..Len(alerts) : alerts[i].wallet_address = wallet}
    IN  IF mine = {} THEN NoRow
        ELSE alerts[CHOOSE i \in mine : \A j \in mine : alerts[i].created_ts >= alerts[j].created_ts]

\* ------------------------------------------------------------ ProcessTrades
\* variant: the smallest timestamp of resp.Trades
MaxTSSmallest(batch) ==
    IF batch = {} THEN 0
    ELSE LET m == CHOOSE w \in batch : \A v \in batch : Trades[w].timestamp <= Trades[v].timestamp
         IN  max(Trades[m].timestamp, 0)

\* maxTS of the checkpoint update: starts at 0, the largest timestamp of resp.Trades
MaxTS(batch) ==
    IF batch = {} THEN 0
    ELSE LET m == CHOOSE w \in batch : \A v \in batch : Trades[w].timestamp >= Trades[v].timestamp
         IN  max(Trades[m].timestamp, 0)

Dispatched(batch, lastProcessedTS) ==
    {w \in batch : ~(Trades[w].timestamp <= lastProcessedTS)}

\* variant: the loop of main goes on after cancel()
MainRunningForever == TRUE

\* main is in its select loop until it has called cancel() and returned
MainRunning == shutdown # "cancelled"

\* GetState, GetTrades and the dispatch loop: one goroutine per trade past the
\* checkpoint, each parked on the worker pool.  main calls ProcessTrades at
\* startup and on the ticker case of its select.
Poll(batch) ==
    /\ MainRunning
    /\ cyc.phase = "idle"
    /\ cyc.n < MaxCycles
    /\ Cardinality(batch) <= MaxBatch
    /\ LET lastProcessedTS == app_state
           d == Dispatched(batch, lastProcessedTS)
       IN  /\ cyc' = [cyc EXCEPT !.phase = "running", !.lastProcessedTS = lastProcessedTS, !.err = "",
                                 !.batch = batch]
           /\ pc' = [w \in Worker |-> IF w \in d THEN "acquire" ELSE "idle"]
           /\ loc' = [w \in Worker |-> LocInit]
           /\ eff' = [w \in Worker |-> <<>>]
           /\ dispatched' = dispatched \cup d
    /\ UNCHANGED <<now, app_state, tables, sent, workerPool, walletLocks, failed, faults, shutdown, outside>>

\* variant: ProcessTrades returns the error of a goroutine
ProcessTradesReturnsWorkerError(errs) ==
    IF errs = {} THEN "" ELSE CHOOSE e \in errs : TRUE

\* what ProcessTrades returns after wg.Wait: the goroutines log the errors of
\* processTrade (errs) and keep them, and ProcessTrades returns nil
ProcessTradesReturn(errs) == ""

\* wg.Wait and the checkpoint update
Checkpoint ==
    /\ cyc.phase = "running"
    /\ \A w \in Worker : pc[w] \in {"idle", "done"}
    /\ LET maxTS == MaxTS(cyc.batch)
       IN  app_state' = IF cyc.batch # {} /\ maxTS > cyc.lastProcessedTS
                        THEN maxTS ELSE app_state
    /\ cyc' = [cyc EXCEPT !.phase = "idle", !.n = @ + 1,
                          !.err = ProcessTradesReturn({loc[w].err : w \in Worker} \ {""})]
    /\ UNCHANGED <<now, tables, sent, workerPool, walletLocks, pc, loc, eff,
                   dispatched, failed, faults, shutdown, outside>>

\* time passes.  A step of the clock is half a cooldown, far longer than a
\* poll cycle, so the clock reads the same throughout one cycle.
Tick ==
    /\ cyc.phase = "idle"
    /\ now < Now0 + MaxTicks * TickSec
    /\ now' = now + TickSec
    /\ UNCHANGED <<app_state, tables, sent, workerPool, walletLocks, cyc, pc, loc, eff,
                   dispatched, failed, faults, shutdown, outside>>

\* SIGINT or SIGTERM: signal.Notify puts it in sigChan, which only the select
\* loop of main receives from; its sigChan case calls cancel() and returns.
\* main runs ProcessTrades synchronously, so it is in the select only between
\* cycles.
Cancel ==
    /\ shutdown = "none"
    /\ cyc.phase = "idle"
    /\ shutdown' = "cancelled"
    /\ UNCHANGED <<now, app_state, tables, sent, workerPool, walletLocks, cyc, pc, loc, eff,
                   dispatched, failed, faults, outside>>

\* ------------------------------------------------------------- processTrade
\* the trade a goroutine is given: trade w of the upstream's list, in the
\* form the run has drawn for it when it has drawn one
Trade(w) ==
    IF unit # NoUnit /\ "trades" \in DOMAIN unit THEN unit.trades[w] ELSE Trades[w]

\* a market that passes the filters of processTrade
OpenMarket == [category |-> Politics, endDate |-> Now0 + 7200, liquidityNum |-> 200000]

\* what the market-metadata upstream answers for a condition id when it answers
GammaMarket(conditionId) ==
    IF unit # NoUnit /\ "market" \in DOMAIN unit THEN unit.market ELSE OpenMarket

\* variant: the permit is returned only when processTrade returned nil
ReturnPermitUnlessError(w, e, l) ==
    /\ pc' = [pc EXCEPT ![w] = "done"]
    /\ workerPool' = IF e = "" THEN workerPool + 1 ELSE workerPool
    /\ loc' = [loc EXCEPT ![w] = [LocInit EXCEPT !.err = e, !.idem = l.idem,
                                                !.severity = l.severity]]

\* the deferred pool release and wg.Done of the goroutine, with its result
Return(w, e, l) ==
    /\ pc' = [pc EXCEPT ![w] = "done"]
    /\ workerPool' = workerPool + 1
    /\ loc' = [loc EXCEPT ![w] = [LocInit EXCEPT !.err = e, !.idem = l.idem,
                                                !.severity = l.severity]]

\* <-p.workerPool
Acquire(w) ==
    /\ pc[w] = "acquire"
    /\ workerPool > 0
    /\ workerPool' = workerPool - 1
    /\ pc' = [pc EXCEPT ![w] = "dedup"]
    /\ UNCHANGED <<now, app_state, tables, sent, walletLocks, cyc, loc, eff,
                   dispatched, failed, faults, shutdown, outside>>

\* history: an earlier run of an equal trade has returned nil in this cycle
RunTwice(w) ==
    \E u \in Worker \ {w} :
        /\ Trade(u) = Trade(w)
        /\ pc[u] = "done"
        /\ loc[u].err = ""

\* HasTradeSeen and the early return for a duplicate
Dedup(w) ==
    /\ pc[w] = "dedup"
    /\ LET l == [loc[w] EXCEPT !.idem = RunTwice(w)]
       IN  IF HasTradeSeen(calculateTradeHash(Trade(w)))
           THEN Return(w, "", l)
           ELSE /\ pc' = [pc EXCEPT ![w] = "resolve"]
                /\ loc' = [loc EXCEPT ![w] = l]
                /\ UNCHANGED workerPool
    /\ UNCHANGED <<now, app_state, tables, sent, walletLocks, cyc, eff,
                   dispatched, failed, faults, shutdown, outside>>

\* variant: the side of the trade is not validated
RejectedSideUnchecked(trade, marketInfo, tnow) ==
    \/ isNotInsiderCategory(marketInfo.category)
    \/ /\ marketInfo.endDate > 0
       /\ \/ trade.timestamp >= marketInfo.endDate
          \/ marketInfo.endDate > tnow + TwoMonthsSec
    \/ trade.outcome = ""
    \/ calculateNotional(trade) < MinTradeUSD

\* the category filter, the temporal filter, the validation of side and
\* outcome and the notional floor, in the order of processTrade
Rejected(trade, marketInfo, tnow) ==
    \/ isNotInsiderCategory(marketInfo.category)
    \/ /\ marketInfo.endDate > 0
       /\ \/ trade.timestamp >= marketInfo.endDate
          \/ marketInfo.endDate > tnow + TwoMonthsSec
    \/ (trade.side # "BUY" /\ trade.side # "SELL")
    \/ trade.outcome = ""
    \/ calculateNotional(trade) < MinTradeUSD

\* what processTrade does with the market info resolveMarket returned
AfterResolve(w, marketInfo) ==
    LET l == [loc[w] EXCEPT !.marketInfo = marketInfo]
    IN  IF Rejected(Trade(w), marketInfo, now)
        THEN Return(w, "", l)
        ELSE /\ pc' = [pc EXCEPT ![w] = "wallet"]
             /\ loc' = [loc EXCEPT ![w] = l]
             /\ UNCHANGED workerPool

\* resolveMarket: GetMarketMap and the TTL test; on a miss
\* GetMarketByConditionID, which answers (ok) or fails; on failure the info
\* is built from the trade alone: no category, end date 0, liquidity 0
resolveMarket(w, ok) ==
    /\ pc[w] = "resolve"
    /\ LET cached == market_map[Trade(w).conditionId]
       IN  IF cached # NoRow /\ now - cached.updated_ts < MarketTTL
           THEN AfterResolve(w, [category |-> cached.category, endDate |-> cached.end_date,
                                 liquidityNum |-> cached.liquidity_num])
           ELSE IF ok
           THEN /\ pc' = [pc EXCEPT ![w] = "cache"]
                /\ loc' = [loc EXCEPT ![w].marketInfo = GammaMarket(Trade(w).conditionId)]
                /\ UNCHANGED workerPool
           ELSE AfterResolve(w, NoInfo)
    /\ UNCHANGED <<now, app_state, tables, sent, walletLocks, cyc, eff,
                   dispatched, failed, faults, shutdown, outside>>

\* resolveMarket: UpsertMarketMap of the fetched market
CacheMarket(w) ==
    /\ pc[w] = "cache"
    /\ market_map' = [market_map EXCEPT ![Trade(w).conditionId] =
            [category |-> loc[w].marketInfo.category, end_date |-> loc[w].marketInfo.endDate,
             liquidity_num |-> loc[w].marketInfo.liquidityNum, updated_ts |-> now]]
    /\ eff' = [eff EXCEPT ![w] = Append(@, "market_map")]
    /\ AfterResolve(w, loc[w].marketInfo)
    /\ UNCHANGED <<now, app_state, trades_seen, wallets, alerts, wallet_market_net,
                   sent, walletLocks, cyc, dispatched, failed, faults, shutdown, outside>>

\* ---------------------------------------------------------- getOrCreateWallet
\* variant: the wallet counters are updated without the trade row insert
LoadedNoInsert(w, wallet) ==
    /\ pc' = [pc EXCEPT ![w] = "wupdate"]
    /\ loc' = [loc EXCEPT ![w].wallet = wallet, ![w].isFirstTrade = (wallet.total_trades = 0)]

\* processTrade after getOrCreateWallet returned: the first-trade flag is
\* taken from the struct before the counters are incremented
Loaded(w, wallet) ==
    /\ pc' = [pc EXCEPT ![w] = "insert"]
    /\ loc' = [loc EXCEPT ![w].wallet = wallet, ![w].isFirstTrade = (wallet.total_trades = 0)]

\* first GetWallet, outside the lock
GetWalletFirst(w) ==
    /\ pc[w] = "wallet"
    /\ LET wallet == GetWallet(Trade(w).proxyWallet)
       IN  IF wallet # NoRow
           THEN Loaded(w, wallet)
           ELSE /\ pc' = [pc EXCEPT ![w] = "lock"]
                /\ UNCHANGED loc
    /\ UNCHANGED <<now, app_state, tables, sent, workerPool, walletLocks, cyc, eff,
                   dispatched, failed, faults, shutdown, outside>>

\* the Wallet struct built from the first-activity lookup, which answers
\* (ok) or fails
NewWallet(address, tradeTimestamp, ok) ==
    [wallet_address |-> address,
     first_seen_ts |-> IF ok THEN FirstActivityTS(address) ELSE tradeTimestamp,
     funding_received_ts |-> IF ok THEN FirstActivityTS(address) ELSE 0,
     total_trades |-> 0, total_volume_usd |-> 0, last_activity_ts |-> tradeTimestamp]

\* variant: getOrCreateWallet without the per-wallet lock
GetWalletUnlocked(w, ok) ==
    /\ pc[w] = "lock"
    /\ LET wallet == GetWallet(Trade(w).proxyWallet)
       IN  IF wallet # NoRow
           THEN /\ Loaded(w, wallet)
                /\ UNCHANGED walletLocks
           ELSE /\ walletLocks' = [walletLocks EXCEPT ![Trade(w).proxyWallet] = w]
                /\ pc' = [pc EXCEPT ![w] = "create"]
                /\ loc' = [loc EXCEPT ![w].wallet =
                               NewWallet(Trade(w).proxyWallet, Trade(w).timestamp, ok)]
    /\ UNCHANGED <<now, app_state, tables, sent, workerPool, cyc, eff,
                   dispatched, failed, faults, shutdown, outside>>

\* walletLocks.LoadOrStore and lock.Lock, the second GetWallet under the
\* lock (a row found: unlock and return it) and GetWalletFirstActivity
GetWalletLocked(w, ok) ==
    /\ pc[w] = "lock"
    /\ walletLocks[Trade(w).proxyWallet] = 0
    /\ LET wallet == GetWallet(Trade(w).proxyWallet)
       IN  IF wallet # NoRow
           THEN /\ Loaded(w, wallet)
                /\ UNCHANGED walletLocks
           ELSE /\ walletLocks' = [walletLocks EXCEPT ![Trade(w).proxyWallet] = w]
                /\ pc' = [pc EXCEPT ![w] = "create"]
                /\ loc' = [loc EXCEPT ![w].wallet =
                               NewWallet(Trade(w).proxyWallet, Trade(w).timestamp, ok)]
    /\ UNCHANGED <<now, app_state, tables, sent, workerPool, cyc, eff,
                   dispatched, failed, faults, shutdown, outside>>

\* UpsertWallet of the new struct, then unlock.  The funding source is "" for
\* every activity event, so trackFundingSource is not called.
CreateWallet(w) ==
    /\ pc[w] = "create"
    /\ wallets' = UpsertWallet(wallets, loc[w].wallet)
    /\ eff' = [eff EXCEPT ![w] = Append(@, "wallet_create")]
    /\ Loaded(w, WalletCreateRow(loc[w].wallet))
    /\ walletLocks' = [walletLocks EXCEPT ![Trade(w).proxyWallet] = 0]
    /\ UNCHANGED <<now, app_state, trades_seen, alerts, wallet_market_net, market_map,
                   sent, workerPool, cyc, dispatched, failed, faults, shutdown, outside>>

\* ------------------------------------------------- trade row, counters, ledger
\* variant: trades_seen has no primary key, Create never fails
InsertTradeNoKey(w) ==
    /\ pc[w] = "insert"
    /\ trades_seen' = trades_seen (+) SetToBag({TradeRecord(Trade(w))})
    /\ eff' = [eff EXCEPT ![w] = Append(@, "trades_seen")]
    /\ pc' = [pc EXCEPT ![w] = "wupdate"]
    /\ UNCHANGED <<loc, workerPool>>
    /\ UNCHANGED <<now, app_state, wallets, alerts, wallet_market_net, market_map,
                   sent, walletLocks, cyc, dispatched, failed, faults, shutdown, outside>>

\* InsertTrade: Create fails on an existing primary key and processTrade
\* returns that error
InsertTrade(w) ==
    /\ pc[w] = "insert"
    /\ IF BagCardinality(RowsWithHash(calculateTradeHash(Trade(w)))) > 0
       THEN /\ Return(w, "insert trade", loc[w])
            /\ UNCHANGED <<trades_seen, eff>>
       ELSE /\ trades_seen' = trades_seen (+) SetToBag({TradeRecord(Trade(w))})
            /\ eff' = [eff EXCEPT ![w] = Append(@, "trades_seen")]
            /\ pc' = [pc EXCEPT ![w] = "wupdate"]
            /\ UNCHANGED <<loc, workerPool>>
    /\ UNCHANGED <<now, app_state, wallets, alerts, wallet_market_net, market_map,
                   sent, walletLocks, cyc, dispatched, failed, faults, shutdown, outside>>

\* wallet.TotalTrades++, TotalVolumeUSD += notional, then UpsertWallet
IncrementWallet(wallet, trade) ==
    [wallet EXCEPT !.total_trades = @ + 1,
                   !.total_volume_usd = @ + calculateNotional(trade),
                   !.last_activity_ts = trade.timestamp]

UpdateWallet(w) ==
    /\ pc[w] = "wupdate"
    /\ LET wallet == IncrementWallet(loc[w].wallet, Trade(w))
       IN  /\ wallets' = UpsertWallet(wallets, wallet)
           /\ loc' = [loc EXCEPT ![w].wallet = wallet]
    /\ eff' = [eff EXCEPT ![w] = Append(@, "wallets")]
    /\ pc' = [pc EXCEPT ![w] = "np_get"]
    /\ UNCHANGED <<now, app_state, trades_seen, alerts, wallet_market_net, market_map,
                   sent, workerPool, walletLocks, cyc, dispatched, failed, faults, shutdown, outside>>

\* updateNetPosition: GetNetPosition
GetNetPosition(w) ==
    /\ pc[w] = "np_get"
    /\ loc' = [loc EXCEPT ![w].existingPos = wallet_market_net[NetKey(Trade(w))]]
    /\ pc' = [pc EXCEPT ![w] = "np_first"]
    /\ UNCHANGED <<now, app_state, tables, sent, workerPool, walletLocks, cyc, eff,
                   dispatched, failed, faults, shutdown, outside>>

\* the WalletMarketNet struct updateNetPosition hands to UpsertNetPosition
NetPos(trade, existingPos) ==
    LET notional == calculateNotional(trade)
        netNotional == IF trade.side = "SELL" THEN -notional ELSE notional
    IN  IF existingPos # NoRow
        THEN [net_notional_usd |-> netNotional + existingPos.net_notional_usd,
              trade_count |-> 1 + existingPos.trade_count]
        ELSE [net_notional_usd |-> netNotional, trade_count |-> 1]

\* UpsertNetPosition: the existence query
UpsertNetPositionFirst(w) ==
    /\ pc[w] = "np_first"
    /\ loc' = [loc EXCEPT ![w].found = (wallet_market_net[NetKey(Trade(w))] # NoRow)]
    /\ pc' = [pc EXCEPT ![w] = "np_write"]
    /\ UNCHANGED <<now, app_state, tables, sent, workerPool, walletLocks, cyc, eff,
                   dispatched, failed, faults, shutdown, outside>>

\* UpsertNetPosition: Create when the query found no row (a duplicate key is
\* an error the caller logs), otherwise the additive UPDATE
UpsertNetPosition(tbl, key, pos, found) ==
    IF ~found
    THEN IF tbl[key] = NoRow THEN [tbl EXCEPT ![key] = pos] ELSE tbl
    ELSE [tbl EXCEPT ![key] =
            [net_notional_usd |-> @.net_notional_usd + pos.net_notional_usd,
             trade_count |-> @.trade_count + pos.trade_count]]

UpsertNetPositionWrite(w) ==
    /\ pc[w] = "np_write"
    /\ wallet_market_net' = UpsertNetPosition(wallet_market_net, NetKey(Trade(w)),
                                NetPos(Trade(w), loc[w].existingPos), loc[w].found)
    /\ eff' = [eff EXCEPT ![w] = Append(@, "wallet_market_net")]
    /\ pc' = [pc EXCEPT ![w] = "signals"]
    /\ UNCHANGED <<now, app_state, trades_seen, wallets, alerts, market_map,
                   sent, workerPool, walletLocks, cyc, loc, dispatched, failed, faults, shutdown, outside>>

\* ------------------------------------------------------------------ signals
walletAgeDays(trade, wallet) == TruncDiv(trade.timestamp - wallet.first_seen_ts, 86400)

secsToClose(trade, marketInfo) ==
    IF marketInfo.endDate > 0 THEN marketInfo.endDate - trade.timestamp ELSE 0

\* seconds between funding and first-seen, 0 when unknown or out of order
fundingAgeSecs(wallet) ==
    IF wallet.funding_received_ts > 0 /\ wallet.first_seen_ts > 0
       /\ wallet.first_seen_ts >= wallet.funding_received_ts
    THEN wallet.first_seen_ts - wallet.funding_received_ts ELSE 0

\* GetWalletActivity answers with tradeCount TRADE events (apiOk) or fails
firstTradeLargeMultiplier(isFirstTrade, notional, apiOk, tradeCount) ==
    IF isFirstTrade /\ notional >= MinTradeUSD
    THEN IF notional >= MinTradeUSD * 2
         THEN IF apiOk THEN (IF tradeCount <= 2 THEN <<2, 1>> ELSE FOne) ELSE <<2, 1>>
         ELSE <<2, 1>>
    ELSE FOne

flashFundingMultiplier(fundingSecs) ==
    IF fundingSecs > 0 /\ fundingSecs <= 5 * 60 THEN <<3, 1>> ELSE FOne

\* variant: the funding-age multiplier without the 24-hour limit
fundingAgeMultiplierNoLimit(fundingSecs) ==
    IF fundingSecs > 0
    THEN Frac(2 * 24 * 3600 + 3 * (24 * 3600 - fundingSecs), 2 * 24 * 3600)
    ELSE FOne

fundingAgeMultiplier(fundingSecs) ==
    IF fundingSecs > 0 /\ fundingSecs <= 24 * 3600
    THEN Frac(2 * 24 * 3600 + 3 * (24 * 3600 - fundingSecs), 2 * 24 * 3600)
    ELSE FOne

liquidityMultiplier(notional, liquidityNum) ==
    IF liquidityNum > 0 /\ notional * 100 > 5 * liquidityNum
    THEN IF notional * 100 >= 50 * liquidityNum THEN <<3, 1>>
         ELSE IF notional * 100 >= 20 * liquidityNum THEN <<2, 1>>
         ELSE IF notional * 100 >= 10 * liquidityNum THEN <<3, 2>>
         ELSE <<6, 5>>
    ELSE FOne

priceConfidenceMultiplier(price) ==
    IF FGeq(price, <<85, 100>>) \/ FGeq(<<15, 100>>, price) THEN <<3, 2>> ELSE FOne

\* the sum of notional_usd over the rows of a set, each with its copies
RECURSIVE SumNotional(_)
SumNotional(rows) ==
    IF rows = {} THEN 0
    ELSE LET r == CHOOSE x \in rows : TRUE
         IN  r.notional_usd * trades_seen[r] + SumNotional(rows \ {r})

\* the rows of a wallet with timestamp_sec >= sinceTS
GetRecentTradesForWallet(walletAddress, sinceTS) ==
    {r \in BagToSet(trades_seen) : r.proxy_wallet = walletAddress /\ r.timestamp_sec >= sinceTS}

\* len(recentTrades) + 1
checkTradeVelocity(walletAddress, currentTradeTS) ==
    BagCardinality(Where(GetRecentTradesForWallet(walletAddress,
                    currentTradeTS - VelocityWindowMinutes * 60))) + 1

velocityMultiplier(velocityCount) ==
    IF EnableVelocityDetection /\ velocityCount >= VelocityThreshold
    THEN IF velocityCount >= 10 THEN <<3, 1>>
         ELSE IF velocityCount >= 5 THEN <<2, 1>>
         ELSE <<3, 2>>
    ELSE FOne

\* <<larger side, total>> of the wallet's gross BUY and SELL volume in the market
checkNetPositionConcentration(walletAddress, conditionID, currentTS, currentNotional, currentSide) ==
    LET recent == {r \in GetRecentTradesForWallet(walletAddress,
                            currentTS - NetPositionWindowHrs * 3600) :
                        r.condition_id = conditionID}
        buyVolume == SumNotional({r \in recent : r.side = "BUY"})
                     + (IF currentSide = "BUY" THEN currentNotional ELSE 0)
        sellVolume == SumNotional({r \in recent : r.side = "SELL"})
                      + (IF currentSide = "BUY" THEN 0 ELSE currentNotional)
        totalVolume == buyVolume + sellVolume
    IN  IF totalVolume = 0 THEN <<0, 1>> ELSE Frac(max(buyVolume, sellVolume), totalVolume)

concentrationMultiplier(concentration) ==
    IF FGt(concentration, <<90, 100>>) THEN <<3, 2>> ELSE FOne

\* wallet_stats is written by the win-rate reconciler only; no row exists
\* where the reconciler has not run
GetWalletStats(walletAddress) ==
    IF recon # NoRecon /\ walletAddress \in DOMAIN recon.wallet_stats
    THEN recon.wallet_stats[walletAddress]
    ELSE NoRow

\* the win rate processTrade uses: the stored win_rate of a row with resolved
\* trades, 0 otherwise
winRate(walletStats) ==
    IF walletStats # NoRow /\ walletStats.total_resolved_trades > 0
    THEN walletStats.win_rate ELSE <<0, 1>>

\* variant: the win-rate multiplier without the minimum of 5 resolved trades
winRateMultiplierNoMinimum(walletStats) ==
    IF walletStats # NoRow /\ FGeq(winRate(walletStats), MinWinRateThreshold)
    THEN Frac(winRate(walletStats)[1] + winRate(walletStats)[2], winRate(walletStats)[2])
    ELSE FOne

\* 1.0 + winRate under the guard of processTrade
winRateMultiplier(walletStats) ==
    IF walletStats # NoRow /\ walletStats.total_resolved_trades >= 5
       /\ FGeq(winRate(walletStats), MinWinRateThreshold)
    THEN Frac(winRate(walletStats)[1] + winRate(walletStats)[2], winRate(walletStats)[2])
    ELSE FOne

\* getClusterMultiplier, given the cluster of the wallet's funding source
\* (NoRow when the wallet has no funding source or the source no cluster)
getClusterMultiplier(cluster) ==
    IF cluster = NoRow THEN FOne
    ELSE IF cluster.wallet_count >= 10 THEN <<3, 1>>
    ELSE IF cluster.wallet_count >= 5 THEN <<2, 1>>
    ELSE IF cluster.wallet_count >= 2 THEN <<3, 2>>
    ELSE FOne

\* the extra boost of a coordinated trade
coordinatedBoost(isCoordinated) == IF isCoordinated THEN <<2, 1>> ELSE FOne

\* wallet_funding_sources has no row (no funding source is ever tracked), so
\* detectCoordinatedTrade answers false and getClusterMultiplier 1
clusterMultiplier(walletAddress) == getClusterMultiplier(NoRow)
coordinatedMultiplier(walletAddress) == coordinatedBoost(FALSE)

\* adjustedScore *= m for each multiplier, in the order of the sequence
RECURSIVE composeScore(_, _)
composeScore(score, ms) ==
    IF ms = <<>> THEN score ELSE composeScore(FMul(score, Head(ms)), Tail(ms))

\* the multipliers of processTrade for a worker's trade, in their order of
\* application
Multipliers(w, apiOk, tradeCount) ==
    LET trade == Trade(w)
        wallet == loc[w].wallet
        notional == calculateNotional(trade)
    IN  << winRateMultiplier(GetWalletStats(trade.proxyWallet)),
           firstTradeLargeMultiplier(loc[w].isFirstTrade, notional, apiOk, tradeCount),
           flashFundingMultiplier(fundingAgeSecs(wallet)),
           liquidityMultiplier(notional, loc[w].marketInfo.liquidityNum),
           priceConfidenceMultiplier(trade.price),
           concentrationMultiplier(checkNetPositionConcentration(
               trade.proxyWallet, trade.conditionId, trade.timestamp, notional, trade.side)),
           velocityMultiplier(checkTradeVelocity(trade.proxyWallet, trade.timestamp)),
           clusterMultiplier(trade.proxyWallet),
           coordinatedMultiplier(trade.proxyWallet),
           fundingAgeMultiplier(fundingAgeSecs(wallet)) >>

\* the running product of processTrade
adjustedScore(w, apiOk, tradeCount) ==
    LET trade == Trade(w)
        score == calculateSuspicionScore(calculateNotional(trade),
                                         walletAgeDays(trade, loc[w].wallet),
                                         secsToClose(trade, loc[w].marketInfo))
    IN  composeScore(score, Multipliers(w, apiOk, tradeCount))

\* variant: no age gate
AgeGateOpen(trade, wallet) == TRUE

\* the age gate of processTrade
AgeGate(trade, wallet) == walletAgeDays(trade, wallet) <= NewWalletDaysMax

\* the reads that gather the signals, the score and the severity.  The
\* severity kept in loc is that of the adjusted score whether or not the age
\* gate lets the trade through.
Signals(w, apiOk, tradeCount) ==
    /\ pc[w] = "signals"
    /\ LET score == adjustedScore(w, apiOk, tradeCount)
           severity == determineSeverity(score)
           l == [loc[w] EXCEPT !.severity = severity]
       IN  IF AgeGate(Trade(w), loc[w].wallet) /\ severity # "INFO"
           THEN /\ pc' = [pc EXCEPT ![w] = "al_get"]
                /\ loc' = [loc EXCEPT ![w] = l]
                /\ UNCHANGED workerPool
           ELSE Return(w, "", l)
    /\ unit' = IF unit # NoUnit /\ "scored" \in DOMAIN unit
               THEN [unit EXCEPT !.scored = @ \cup {w},
                                 !.flagged = IF loc[w].isFirstTrade THEN @ \cup {w} ELSE @]
               ELSE unit
    /\ UNCHANGED <<now, app_state, tables, sent, walletLocks, cyc, eff,
                   dispatched, failed, faults, shutdown, limiter, scoring, recon,
                   undelivered>>

\* ---------------------------------------------------------------- sendAlert
\* GetLastAlertForWallet and the cooldown test
CheckCooldown(w) ==
    /\ pc[w] = "al_get"
    /\ LET lastAlert == GetLastAlertForWallet(Trade(w).proxyWallet)
           cooldownSec == AlertCooldownMins * 60
       IN  IF lastAlert # NoRow /\ now - lastAlert.created_ts < cooldownSec
           THEN Return(w, "", loc[w])
           ELSE /\ pc' = [pc EXCEPT ![w] = "al_ins"]
                /\ UNCHANGED <<loc, workerPool>>
    /\ UNCHANGED <<now, app_state, tables, sent, walletLocks, cyc, eff,
                   dispatched, failed, faults, shutdown, outside>>

\* InsertAlert (BeforeCreate stamps created_ts), then alertSender.Send
InsertAlert(w) ==
    /\ pc[w] = "al_ins"
    /\ alerts' = Append(alerts,
            [alert_type |-> loc[w].severity, wallet_address |-> Trade(w).proxyWallet,
             transaction_hash |-> Trade(w).transactionHash,
             trade_timestamp_sec |-> Trade(w).timestamp,
             wallet_age_days |-> walletAgeDays(Trade(w), loc[w].wallet),
             created_ts |-> now])
    /\ sent' = Append(sent, [severity |-> loc[w].severity,
                             wallet_address |-> Trade(w).proxyWallet,
                             trade_timestamp_sec |-> Trade(w).timestamp,
                             wallet_age_days |-> walletAgeDays(Trade(w), loc[w].wallet),
                             at |-> now])
    /\ eff' = [eff EXCEPT ![w] = eff[w] \o <<"alerts", "send">>]
    /\ Return(w, "", loc[w])
    /\ UNCHANGED <<now, app_state, trades_seen, wallets, wallet_market_net, market_map,
                   walletLocks, cyc, dispatched, failed, faults, shutdown, outside>>

\* variant: the error of Send undoes the insert of the alert row
InsertAlertRolledBack(w, delivered) ==
    /\ pc[w] = "al_ins"
    /\ Len(undelivered) < MaxFaults
    /\ LET payload == [severity |-> loc[w].severity,
                       wallet_address |-> Trade(w).proxyWallet,
                       trade_timestamp_sec |-> Trade(w).timestamp,
                       wallet_age_days |-> walletAgeDays(Trade(w), loc[w].wallet),
                       at |-> now]
       IN  /\ alerts' = alerts
           /\ sent' = IF delivered THEN Append(sent, payload) ELSE sent
           /\ undelivered' = Append(undelivered,
                   [worker |-> w, row |-> Len(alerts) + 1, created_ts |-> now,
                    wallet_address |-> Trade(w).proxyWallet, delivered |-> delivered])
    /\ eff' = [eff EXCEPT ![w] = eff[w] \o <<"alerts", "send failed">>]
    /\ Return(w, "", loc[w])
    /\ UNCHANGED <<now, app_state, trades_seen, wallets, wallet_market_net, market_map,
                   walletLocks, cyc, dispatched, failed, faults, shutdown,
                   limiter, scoring, recon, unit>>

\* InsertAlert, then alertSender.Send returns an error: at least one sink has
\* failed, and with several sinks another may have delivered.  sendAlert
\* returns the error, processTrade logs it and returns nil.
InsertAlertSendError(w, delivered) ==
    /\ pc[w] = "al_ins"
    /\ Len(undelivered) < MaxFaults
    /\ LET payload == [severity |-> loc[w].severity,
                       wallet_address |-> Trade(w).proxyWallet,
                       trade_timestamp_sec |-> Trade(w).timestamp,
                       wallet_age_days |-> walletAgeDays(Trade(w), loc[w].wallet),
                       at |-> now]
       IN  /\ alerts' = Append(alerts,
                   [alert_type |-> loc[w].severity, wallet_address |-> Trade(w).proxyWallet,
                    transaction_hash |-> Trade(w).transactionHash,
                    trade_timestamp_sec |-> Trade(w).timestamp,
                    wallet_age_days |-> walletAgeDays(Trade(w), loc[w].wallet),
                    created_ts |-> now])
           /\ sent' = IF delivered THEN Append(sent, payload) ELSE sent
           /\ undelivered' = Append(undelivered,
                   [worker |-> w, row |-> Len(alerts) + 1, created_ts |-> now,
                    wallet_address |-> Trade(w).proxyWallet, delivered |-> delivered])
    /\ eff' = [eff EXCEPT ![w] = eff[w] \o <<"alerts", "send failed">>]
    /\ Return(w, "", loc[w])
    /\ UNCHANGED <<now, app_state, trades_seen, wallets, wallet_market_net, market_map,
                   walletLocks, cyc, dispatched, failed, faults, shutdown,
                   limiter, scoring, recon, unit>>

\* a persistence call made before the trade row exists (HasTradeSeen,
\* InsertTrade) fails and processTrade returns the error
Fault(w) ==
    /\ pc[w] \in {"dedup", "insert"}
    /\ faults < MaxFaults
    /\ faults' = faults + 1
    /\ failed' = failed \cup {w}
    /\ Return(w, "db error", loc[w])
    /\ UNCHANGED <<now, app_state, tables, sent, walletLocks, cyc, eff, dispatched,
                   shutdown, outside>>

\* ------------------------------------------------------------ specification
Batches == {b \in SUBSET Worker : Cardinality(b) <= MaxBatch}

Next ==
    \/ \E batch \in Batches : Poll(batch)
    \/ Checkpoint
    \/ Tick
    \/ \E w \in Worker : Acquire(w)
    \/ \E w \in Worker : Dedup(w)
    \/ \E w \in Worker, ok \in BOOLEAN : resolveMarket(w, ok)
    \/ \E w \in Worker : CacheMarket(w)
    \/ \E w \in Worker : GetWalletFirst(w)
    \/ \E w \in Worker, ok \in BOOLEAN : GetWalletLocked(w, ok)
    \/ \E w \in Worker : CreateWallet(w)
    \/ \E w \in Worker : InsertTrade(w)
    \/ \E w \in Worker : UpdateWallet(w)
    \/ \E w \in Worker : GetNetPosition(w)
    \/ \E w \in Worker : UpsertNetPositionFirst(w)
    \/ \E w \in Worker : UpsertNetPositionWrite(w)
    \/ \E w \in Worker, apiOk \in BOOLEAN, tradeCount \in {1, 3} : Signals(w, apiOk, tradeCount)
    \/ \E w \in Worker : CheckCooldown(w)
    \/ \E w \in Worker : InsertAlert(w)

Spec == Init /\ [][Next]_vars

NextFault == Next \/ \E w \in Worker : Fault(w)

SpecFault == Init /\ [][NextFault]_vars

\* the pipeline on trades and markets that the filters of processTrade reject:
\* the market of the trades is of an excluded category, has ended or ends more
\* than two months ahead, or one event of the list has no valid side, no
\* outcome or a notional below the minimum
Sports == <<"S","p","o","r","t","s">>

RejectMarkets ==
    { OpenMarket,
      [category |-> Sports, endDate |-> Now0 + 7200, liquidityNum |-> 200000],
      [category |-> Politics, endDate |-> Now0 - 7200, liquidityNum |-> 200000],
      [category |-> Politics, endDate |-> Now0 + 2 * TwoMonthsSec, liquidityNum |-> 200000] }

Defects == {"none", "side", "outcome", "notional"}

Defect(trade, defect) ==
    IF defect = "side" THEN [trade EXCEPT !.side = "buy"]
    ELSE IF defect = "outcome" THEN [trade EXCEPT !.outcome = ""]
    ELSE IF defect = "notional" THEN [trade EXCEPT !.usdcSize = MinTradeUSD - 1]
    ELSE trade

InitRejected ==
    /\ PipelineInit
    /\ limiter = NoLimiter
    /\ scoring = NoScoring
    /\ recon = NoRecon
    /\ undelivered = <<>>
    /\ \E market \in RejectMarkets, defect \in Defects, event \in {{1, 2}, {3}} :
          /\ market # OpenMarket \/ defect # "none"
          /\ unit = [market |-> market,
                     trades |-> [w \in Worker |-> IF w \in event THEN Defect(Trades[w], defect)
                                                  ELSE Trades[w]]]

SpecRejected == InitRejected /\ [][Next]_vars

\* the pipeline with storage errors and a pool of one or two permits
InitPool ==
    /\ now = Now0
    /\ app_state = 0
    /\ trades_seen = EmptyBag
    /\ wallets = [a \in Wallets |-> NoRow]
    /\ alerts = <<>>
    /\ wallet_market_net = [k \in NetKeys |-> NoRow]
    /\ market_map = [c \in Conditions |-> NoRow]
    /\ sent = <<>>
    /\ walletLocks = [a \in Wallets |-> 0]
    /\ cyc = [phase |-> "idle", n |-> 0, lastProcessedTS |-> 0, batch |-> {}, err |-> ""]
    /\ pc = [w \in Worker |-> "idle"]
    /\ loc = [w \in Worker |-> LocInit]
    /\ eff = [w \in Worker |-> <<>>]
    /\ dispatched = {}
    /\ failed = {}
    /\ faults = 0
    /\ shutdown = "none"
    /\ limiter = NoLimiter
    /\ scoring = NoScoring
    /\ recon = NoRecon
    /\ undelivered = <<>>
    /\ \E workers \in 1..WalletLookupWorkers :
          /\ workerPool = workers
          /\ unit = [workers |-> workers]

SpecPool == InitPool /\ [][NextFault]_vars

NextSendError ==
    Next \/ \E w \in Worker, delivered \in BOOLEAN : InsertAlertSendError(w, delivered)

SpecSendError == Init /\ [][NextSendError]_vars

\* the pipeline with the shutdown signal
NextShutdown == Next \/ Cancel

SpecShutdown == Init /\ [][NextShutdown]_vars

\* ------------------------------------------------------------------- claims
\* the writes and sends a goroutine has made
Has(w, e) == \E i \in 1..Len(eff[w]) : eff[w][i] = e

Fingerprint(w) == calculateTradeHash(Trade(w))

\* C1: idempotence.  A run of processTrade that starts after a run of an equal
\* trade has returned nil adds no row to trades_seen, alerts or
\* wallet_market_net, writes no wallets row and sends no alert.
C1_Idempotence ==
    \A w \in Worker :
        loc[w].idem =>
            \A e \in {"trades_seen", "alerts", "wallet_market_net", "wallets",
                      "wallet_create", "send"} : ~Has(w, e)

\* a second run of an equal trade has returned
C1_Witness ==
    \E w \in Worker :
        /\ loc[w].idem
        /\ pc[w] = "done"
        /\ loc[w].err = ""
        /\ BagCardinality(RowsWithHash(Fingerprint(w))) = 1

\* C2: concurrent duplicates.  Of two goroutines that run processTrade on
\* trades with one fingerprint, at most one inserts the trades_seen row,
\* updates the wallet counters, updates the ledger and raises an alert; no
\* fingerprint has two rows; and when both have returned there is exactly one
\* row, one counter update and one ledger update.
C2_ConcurrentDuplicates ==
    /\ \A w \in Worker : BagCardinality(RowsWithHash(Fingerprint(w))) <= 1
    /\ \A u, v \in Worker :
        (u # v /\ Fingerprint(u) = Fingerprint(v)) =>
            /\ \A e \in {"trades_seen", "wallets", "wallet_market_net", "alerts", "send"} :
                   ~(Has(u, e) /\ Has(v, e))
            /\ (pc[u] = "done" /\ pc[v] = "done") =>
                   /\ BagCardinality(RowsWithHash(Fingerprint(u))) = 1
                   /\ \A e \in {"trades_seen", "wallets", "wallet_market_net"} :
                          Has(u, e) \/ Has(v, e)

\* both duplicates passed the HasTradeSeen check and one lost on the key
C2_Witness ==
    \E u, v \in Worker :
        /\ u # v /\ Fingerprint(u) = Fingerprint(v)
        /\ pc[u] = "done" /\ pc[v] = "done"
        /\ loc[v].err = "insert trade"
        /\ Has(u, "wallet_market_net")

\* the recorded trades that map to a ledger key
RowsOfKey(key) ==
    {r \in BagToSet(trades_seen) :
        <<r.proxy_wallet, r.condition_id, windowStartTS(r.timestamp_sec)>> = key}

RECURSIVE SignedSum(_)
SignedSum(rows) ==
    IF rows = {} THEN 0
    ELSE LET r == CHOOSE x \in rows : TRUE
         IN  (IF r.side = "SELL" THEN -r.notional_usd ELSE r.notional_usd) * trades_seen[r]
             + SignedSum(rows \ {r})

\* C3: ledger consistency.  Between poll cycles, for every key the stored
\* net_notional_usd is the signed sum of the notionals of the recorded trades
\* of that key and the stored trade_count is their number.
C3_LedgerConsistency ==
    cyc.phase = "idle" =>
        \A key \in NetKeys :
            IF RowsOfKey(key) = {} THEN wallet_market_net[key] = NoRow
            ELSE wallet_market_net[key] =
                    [net_notional_usd |-> SignedSum(RowsOfKey(key)),
                     trade_count |-> BagCardinality(Where(RowsOfKey(key)))]

\* C4: wallet counter correctness.  Between poll cycles, a wallet with k
\* recorded trades has a wallets row with total_trades = k.
C4_WalletCounter ==
    cyc.phase = "idle" =>
        \A a \in Wallets :
            LET k == BagCardinality(Where({r \in BagToSet(trades_seen) : r.proxy_wallet = a}))
            IN  k > 0 => (wallets[a] # NoRow /\ wallets[a].total_trades = k)

C6_Cooldown ==
    \A i, j \in 1..Len(alerts) :
        (i < j /\ alerts[i].wallet_address = alerts[j].wallet_address) =>
            alerts[j].created_ts - alerts[i].created_ts >= AlertCooldownMins * 60

\* whole days from the stored first-seen of a wallet to a trade timestamp
StoredAgeDays(address, tradeTS) == TruncDiv(tradeTS - wallets[address].first_seen_ts, 86400)

\* C7: age gating.  Every alert row and every alert sent is for a trade whose
\* wallet age in whole days is at most NEW_WALLET_DAYS_MAX.
C7_AgeGating ==
    /\ \A i \in 1..Len(alerts) :
           /\ alerts[i].wallet_age_days <= NewWalletDaysMax
           /\ StoredAgeDays(alerts[i].wallet_address, alerts[i].trade_timestamp_sec)
                  <= NewWalletDaysMax
    /\ \A i \in 1..Len(sent) :
           /\ sent[i].wallet_age_days <= NewWalletDaysMax
           /\ StoredAgeDays(sent[i].wallet_address, sent[i].trade_timestamp_sec)
                  <= NewWalletDaysMax

\* a trade of a wallet older than the limit scored ALERT and raised nothing
C7_Witness ==
    \E w \in Worker :
        /\ pc[w] = "done"
        /\ Has(w, "wallet_market_net")
        /\ loc[w].severity = "ALERT"
        /\ StoredAgeDays(Trades[w].proxyWallet, Trades[w].timestamp) > NewWalletDaysMax
        /\ ~Has(w, "alerts")
        /\ alerts = <<>>

\* the trades of a batch one at a time, in the order of their index
RECURSIVE InOrder(_)
InOrder(batch) ==
    IF batch = {} THEN <<>>
    ELSE LET w == CHOOSE x \in batch : \A y \in batch : x <= y
         IN  <<w>> \o InOrder(batch \ {w})

\* the wallets and wallet_market_net tables after one run of processTrade
\* on tables st, with no other goroutine running
AfterOne(st, w) ==
    LET trade == Trades[w]
        created == IF st.wallets[trade.proxyWallet] = NoRow
                   THEN UpsertWallet(st.wallets, NewWallet(trade.proxyWallet, trade.timestamp, TRUE))
                   ELSE st.wallets
        existingPos == st.net[NetKey(trade)]
    IN  [wallets |-> UpsertWallet(created, IncrementWallet(created[trade.proxyWallet], trade)),
         net |-> UpsertNetPosition(st.net, NetKey(trade), NetPos(trade, existingPos),
                                   existingPos # NoRow)]

RECURSIVE OneAtATime(_)
OneAtATime(order) ==
    IF order = <<>>
    THEN [wallets |-> [a \in Wallets |-> NoRow], net |-> [k \in NetKeys |-> NoRow]]
    ELSE AfterOne(OneAtATime(SubSeq(order, 1, Len(order) - 1)), order[Len(order)])

\* C8: order independence.  After the first poll cycle on a batch of trades
\* with distinct fingerprints, the wallet counters and the ledger rows are
\* those of processing the batch one trade at a time in a fixed order.
C8_OrderIndependence ==
    (/\ cyc.phase = "idle"
     /\ cyc.n = 1
     /\ \A u, v \in cyc.batch : u # v => Fingerprint(u) # Fingerprint(v)) =>
        LET ref == OneAtATime(InOrder(cyc.batch))
        IN  /\ \A a \in Wallets :
                IF ref.wallets[a] = NoRow THEN wallets[a] = NoRow
                ELSE /\ wallets[a] # NoRow
                     /\ wallets[a].total_trades = ref.wallets[a].total_trades
                     /\ wallets[a].total_volume_usd = ref.wallets[a].total_volume_usd
            /\ wallet_market_net = ref.net

C10_NoTradeLost ==
    cyc.phase = "idle" =>
        \A w \in failed :
            BagCardinality(RowsWithHash(Fingerprint(w))) = 0 =>
                app_state < Trades[w].timestamp

\* ------------------------------------------------------------ rate limiter
\* ratelimit.Limiter.  Time is counted in ticks of 1/LimTicksPerSec second,
\* a rate in RpsDen-ths of a request per second, and tokens in units of
\* 1/TokenUnit token, so that elapsed * rate is a whole number of units.
LimTicksPerSec == 2
RpsDen == 2
TokenUnit == RpsDen * LimTicksPerSec

\* the rates given to New: 0, 0.5, 1 and 2 requests per second
Rates == {0, 1, RpsDen, 2 * RpsDen}

Callers == 1..MaxCallers

\* the bucket is full after one second, so the elapsed time since lastUpdate
\* is kept up to one second
SinceCap == LimTicksPerSec

min(a, b) == IF a < b THEN a ELSE b

\* New: a rate <= 0 becomes 1.0; the bucket starts full, its capacity is the
\* rate (rps tokens)
New(rps) ==
    LET r == IF rps <= 0 THEN RpsDen ELSE rps
    IN  [rate |-> r, tokens |-> r * LimTicksPerSec, maxTokens |-> r * LimTicksPerSec,
         since |-> 0, mu |-> 0, ctx |-> FALSE, clock |-> 0, taken |-> 0, granted |-> 0,
         caller |-> [p \in Callers |-> [pc |-> "idle", ok |-> FALSE, timer |-> 0, calls |-> 0]]]

InitLimiter ==
    /\ PipelineInit
    /\ scoring = NoScoring
    /\ recon = NoRecon
    /\ unit = NoUnit
    /\ undelivered = <<>>
    /\ \E rps \in Rates : limiter = New(rps)

\* a goroutine calls Wait
Wait(p) ==
    /\ limiter.caller[p].pc \in {"idle", "ok", "cancelled"}
    /\ limiter.caller[p].calls < MaxCalls
    /\ limiter' = [limiter EXCEPT !.caller[p].pc = "tryTake", !.caller[p].calls = @ + 1]
    /\ UNCHANGED <<pipeline, scoring, recon, unit, undelivered>>

\* variant: tryTake without the mutex
tryTakeLockNoMutex(p) ==
    /\ limiter.caller[p].pc = "tryTake"
    /\ limiter' = [limiter EXCEPT !.caller[p].pc = "refill"]
    /\ UNCHANGED <<pipeline, scoring, recon, unit, undelivered>>

\* tryTake: l.mu.Lock()
tryTakeLock(p) ==
    /\ limiter.caller[p].pc = "tryTake"
    /\ limiter.mu = 0
    /\ limiter' = [limiter EXCEPT !.mu = p, !.caller[p].pc = "refill"]
    /\ UNCHANGED <<pipeline, scoring, recon, unit, undelivered>>

\* tryTake: tokens += elapsed * rate, capped at maxTokens; lastUpdate = now
tryTakeRefill(p) ==
    /\ limiter.caller[p].pc = "refill"
    /\ limiter' = [limiter EXCEPT
            !.tokens = min(limiter.tokens + limiter.since * limiter.rate, limiter.maxTokens),
            !.since = 0,
            !.caller[p].pc = "check"]
    /\ UNCHANGED <<pipeline, scoring, recon, unit, undelivered>>

\* tryTake: if l.tokens >= 1.0
tryTakeCheck(p) ==
    /\ limiter.caller[p].pc = "check"
    /\ limiter' = [limiter EXCEPT !.caller[p].ok = (limiter.tokens >= TokenUnit),
                                  !.caller[p].pc = "take"]
    /\ UNCHANGED <<pipeline, scoring, recon, unit, undelivered>>

\* waitTime := time.Duration(float64(time.Second) / l.rate), in ticks
waitTime(rate) == TokenUnit \div rate

\* tryTake: l.tokens -= 1.0 when the test passed, the deferred Unlock, and
\* in Wait the start of time.After when tryTake answered false
tryTakeTake(p) ==
    /\ limiter.caller[p].pc = "take"
    /\ limiter' = [limiter EXCEPT
            !.tokens = IF limiter.caller[p].ok THEN @ - TokenUnit ELSE @,
            !.taken = IF limiter.caller[p].ok THEN @ + 1 ELSE @,
            !.mu = IF @ = p THEN 0 ELSE @,
            !.caller[p].pc = IF limiter.caller[p].ok THEN "got" ELSE "select",
            !.caller[p].timer = IF limiter.caller[p].ok THEN 0 ELSE waitTime(limiter.rate)]
    /\ UNCHANGED <<pipeline, scoring, recon, unit, undelivered>>

\* Wait: return nil
WaitReturnNil(p) ==
    /\ limiter.caller[p].pc = "got"
    /\ limiter' = [limiter EXCEPT !.caller[p].pc = "ok", !.granted = @ + 1]
    /\ UNCHANGED <<pipeline, scoring, recon, unit, undelivered>>

\* Wait: the time.After case of the select
WaitTimeAfter(p) ==
    /\ limiter.caller[p].pc = "select"
    /\ limiter.caller[p].timer = 0
    /\ limiter' = [limiter EXCEPT !.caller[p].pc = "tryTake"]
    /\ UNCHANGED <<pipeline, scoring, recon, unit, undelivered>>

\* Wait: the ctx.Done case of the select, return ctx.Err()
WaitCtxDone(p) ==
    /\ limiter.caller[p].pc = "select"
    /\ limiter.ctx
    /\ limiter' = [limiter EXCEPT !.caller[p].pc = "cancelled"]
    /\ UNCHANGED <<pipeline, scoring, recon, unit, undelivered>>

\* the context of the callers is cancelled
CtxCancel ==
    /\ ~limiter.ctx
    /\ limiter' = [limiter EXCEPT !.ctx = TRUE]
    /\ UNCHANGED <<pipeline, scoring, recon, unit, undelivered>>

\* one tick of time: the elapsed time since lastUpdate grows, the timers of
\* the sleeping callers run down; clock is the history of the ticks so far
LimTick ==
    /\ limiter' = [limiter EXCEPT
            !.since = min(@ + 1, SinceCap),
            !.clock = min(@ + 1, MaxLimTicks),
            !.caller = [p \in Callers |->
                           [limiter.caller[p] EXCEPT !.timer = IF @ > 0 THEN @ - 1 ELSE 0]]]
    /\ UNCHANGED <<pipeline, scoring, recon, unit, undelivered>>

\* the steps of a caller inside Wait
WaitStep(p) ==
    \/ tryTakeLock(p)
    \/ tryTakeRefill(p)
    \/ tryTakeCheck(p)
    \/ tryTakeTake(p)
    \/ WaitReturnNil(p)
    \/ WaitTimeAfter(p)

NextLimiter ==
    \/ \E p \in Callers : Wait(p)
    \/ \E p \in Callers : tryTakeLock(p)
    \/ \E p \in Callers : tryTakeRefill(p)
    \/ \E p \in Callers : tryTakeCheck(p)
    \/ \E p \in Callers : tryTakeTake(p)
    \/ \E p \in Callers : WaitReturnNil(p)
    \/ \E p \in Callers : WaitTimeAfter(p)
    \/ \E p \in Callers : WaitCtxDone(p)
    \/ CtxCancel
    \/ LimTick

SpecLimiter == InitLimiter /\ [][NextLimiter]_vars

\* time advances and every goroutine inside Wait is scheduled again and
\* again; a goroutine that keeps asking for the mutex gets it
SpecLimiterFair ==
    /\ SpecLimiter
    /\ WF_vars(LimTick)
    /\ \A p \in Callers : SF_vars(WaitStep(p))

\* ------------------------------------------------------------ scoring alone
\* The scoring of processTrade applied to one trade with given snapshots:
\* the wallet row, the market, the wallet's statistics, and what the sensors
\* read from the stored trades and the clusters.
ScoreTS == Now0

ScoreTrade(usdcSize, price) ==
    [proxyWallet |-> "wA", side |-> "BUY", conditionId |-> "m1", size |-> 2 * usdcSize,
     price |-> price, timestamp |-> ScoreTS, outcome |-> "YES",
     transactionHash |-> "tx9", usdcSize |-> usdcSize]

\* a stored wallets row: total_trades is at least 1
ScoreWallet(ageSecs, fundingSecs) ==
    [wallet_address |-> "wA", first_seen_ts |-> ScoreTS - ageSecs,
     funding_received_ts |-> IF fundingSecs = 0 THEN 0 ELSE ScoreTS - ageSecs - fundingSecs,
     total_trades |-> 1, total_volume_usd |-> 0, last_activity_ts |-> ScoreTS - ageSecs]

ScoreMarket(closeSecs, liquidityNum) ==
    [category |-> Politics, endDate |-> IF closeSecs = 0 THEN 0 ELSE ScoreTS + closeSecs,
     liquidityNum |-> liquidityNum]

\* a wallet_stats row as the reconciler leaves it
StatsRow(resolved, wins) ==
    [total_resolved_trades |-> resolved, winning_trades |-> wins,
     losing_trades |-> resolved - wins, win_rate |-> Frac(wins, resolved)]

InitScore ==
    /\ PipelineInit
    /\ limiter = NoLimiter
    /\ recon = NoRecon
    /\ unit = NoUnit
    /\ undelivered = <<>>
    /\ \E usdcSize \in {MinTradeUSD, 2 * MinTradeUSD},
          price \in {<<1, 2>>, <<17, 20>>},
          ageSecs \in {0, SecPerDay, 2 * SecPerDay, (NewWalletDaysMax + 1) * SecPerDay},
          fundingSecs \in {0, 288, 12 * SecPerHour, 24 * SecPerHour, 25 * SecPerHour},
          closeSecs \in {0, 0 - SecPerHour, SecPerHour, 24 * SecPerHour,
                         TimeToCloseHoursMax * SecPerHour, (TimeToCloseHoursMax + 1) * SecPerHour},
          liquidityNum \in {0, 40 * MinTradeUSD, 20 * MinTradeUSD, 5 * MinTradeUSD,
                            4 * MinTradeUSD},
          stats \in {NoRow} \cup {StatsRow(resolved, wins) :
                                     <<resolved, wins>> \in {<<5, 4>>, <<4, 4>>, <<8, 6>>, <<5, 3>>}},
          concentration \in {<<9, 10>>, <<1, 1>>},
          velocityCount \in {VelocityThreshold - 1, VelocityThreshold},
          cluster \in {NoRow, [wallet_count |-> 2]},
          isCoordinated \in BOOLEAN :
          scoring = [phase |-> "in",
                     in |-> [trade |-> ScoreTrade(usdcSize, price),
                             wallet |-> ScoreWallet(ageSecs, fundingSecs),
                             marketInfo |-> ScoreMarket(closeSecs, liquidityNum),
                             walletStats |-> stats,
                             concentration |-> concentration,
                             velocityCount |-> velocityCount,
                             cluster |-> cluster,
                             isCoordinated |-> isCoordinated],
                     out |-> NoScoring]

\* the multipliers of processTrade for given snapshots, in their order of
\* application.  isFirstTrade is wallet.TotalTrades == 0 before the increment.
ScoreMultipliers(i) ==
    LET notional == calculateNotional(i.trade)
    IN  << winRateMultiplier(i.walletStats),
           firstTradeLargeMultiplier(i.wallet.total_trades = 0, notional, FALSE, 0),
           flashFundingMultiplier(fundingAgeSecs(i.wallet)),
           liquidityMultiplier(notional, i.marketInfo.liquidityNum),
           priceConfidenceMultiplier(i.trade.price),
           concentrationMultiplier(i.concentration),
           velocityMultiplier(i.velocityCount),
           IF EnableClusterDetection THEN getClusterMultiplier(i.cluster) ELSE FOne,
           coordinatedBoost(EnableClusterDetection /\ i.isCoordinated),
           fundingAgeMultiplier(fundingAgeSecs(i.wallet)) >>

\* processTrade from the base score to the decision to call sendAlert
Score ==
    /\ scoring # NoScoring
    /\ scoring.phase = "in"
    /\ LET i == scoring.in
           score == calculateSuspicionScore(calculateNotional(i.trade),
                                            walletAgeDays(i.trade, i.wallet),
                                            secsToClose(i.trade, i.marketInfo))
           ms == ScoreMultipliers(i)
           final == composeScore(score, ms)
           severity == determineSeverity(final)
       IN  scoring' = [scoring EXCEPT
               !.phase = "out",
               !.out = [score |-> score, multipliers |-> ms, final |-> final,
                        severity |-> severity,
                        sendAlert |-> AgeGate(i.trade, i.wallet) /\ severity # "INFO"]]
    /\ UNCHANGED <<pipeline, limiter, recon, unit, undelivered>>

NextScore == Score

SpecScore == InitScore /\ [][NextScore]_vars

\* ---------------------------------------------------------- determineWinner
\* Strings are sequences of characters.
Space == " "
Quote == "\""
Digits == <<"0", "1", "2", "3", "4", "5", "6", "7", "8", "9">>

\* the first position from i on that holds no space, Len(s) + 1 when none
RECURSIVE SkipSpace(_, _)
SkipSpace(s, i) ==
    IF i <= Len(s) /\ s[i] = Space THEN SkipSpace(s, i + 1) ELSE i

\* the position of the next quote from i on, 0 when none
RECURSIVE NextQuote(_, _)
NextQuote(s, i) ==
    IF i > Len(s) THEN 0 ELSE IF s[i] = Quote THEN i ELSE NextQuote(s, i + 1)

ParseError == [ok |-> FALSE, list |-> <<>>]

\* the elements of a JSON array from position i, the position of an element:
\* a quoted string, then a comma and another element or the closing bracket,
\* after which only spaces may follow
RECURSIVE UnmarshalElements(_, _, _)
UnmarshalElements(s, i, acc) ==
    IF i > Len(s) \/ s[i] # Quote THEN ParseError
    ELSE LET close == NextQuote(s, i + 1)
         IN  IF close = 0 THEN ParseError
             ELSE LET list == Append(acc, SubSeq(s, i + 1, close - 1))
                      j == SkipSpace(s, close + 1)
                  IN  IF j > Len(s) THEN ParseError
                      ELSE IF s[j] = "," THEN UnmarshalElements(s, SkipSpace(s, j + 1), list)
                      ELSE IF s[j] = "]" /\ SkipSpace(s, j + 1) > Len(s)
                           THEN [ok |-> TRUE, list |-> list]
                      ELSE ParseError

\* json.Unmarshal of a string into a []string
Unmarshal(s) ==
    LET i == SkipSpace(s, 1)
    IN  IF i > Len(s) \/ s[i] # "[" THEN ParseError
        ELSE LET j == SkipSpace(s, i + 1)
             IN  IF j <= Len(s) /\ s[j] = "]"
                 THEN IF SkipSpace(s, j + 1) > Len(s) THEN [ok |-> TRUE, list |-> <<>>]
                      ELSE ParseError
                 ELSE UnmarshalElements(s, j, <<>>)

DigitValue(c) == (CHOOSE k \in 1..10 : Digits[k] = c) - 1
IsDigit(c) == \E k \in 1..10 : Digits[k] = c

RECURSIVE Pow10(_)
Pow10(n) == IF n = 0 THEN 1 ELSE 10 * Pow10(n - 1)

\* the number written by the digits of s, other characters left out
RECURSIVE DigitsValue(_)
DigitsValue(s) ==
    IF s = <<>> THEN 0
    ELSE IF IsDigit(s[Len(s)])
         THEN 10 * DigitsValue(SubSeq(s, 1, Len(s) - 1)) + DigitValue(s[Len(s)])
         ELSE DigitsValue(SubSeq(s, 1, Len(s) - 1))

\* strconv.ParseFloat for decimal notation without sign and exponent: digits
\* with at most one point and at least one digit; anything else is an error
ParseFloat(s) ==
    LET points == {k \in 1..Len(s) : s[k] = "."}
        digits == {k \in 1..Len(s) : IsDigit(s[k])}
    IN  IF digits = {} \/ Cardinality(points) > 1 \/ points \cup digits # 1..Len(s)
        THEN [ok |-> FALSE, value |-> <<0, 1>>]
        ELSE LET decimals == IF points = {} THEN 0
                             ELSE Len(s) - (CHOOSE k \in points : TRUE)
             IN  [ok |-> TRUE, value |-> Frac(DigitsValue(s), Pow10(decimals))]

\* variant: the winner needs a price above 0.95
isWinningPriceAbove(price) == FGt(price, <<95, 100>>)

\* the test of a parsed price in determineWinner: price >= 0.95
isWinningPrice(price) == FGeq(price, <<95, 100>>)

\* the loop of determineWinner from index i: a price that does not parse is
\* skipped, the first price >= 0.95 names the winner
RECURSIVE firstWinner(_, _, _)
firstWinner(outcomeList, priceList, i) ==
    IF i > Len(priceList) THEN <<>>
    ELSE LET price == ParseFloat(priceList[i])
         IN  IF price.ok /\ isWinningPrice(price.value) THEN outcomeList[i]
             ELSE firstWinner(outcomeList, priceList, i + 1)

\* determineWinner; the empty string is <<>>
determineWinner(outcomes, outcomePrices) ==
    IF outcomes = <<>> \/ outcomePrices = <<>> THEN <<>>
    ELSE LET outcomeList == Unmarshal(outcomes)
             priceList == Unmarshal(outcomePrices)
         IN  IF ~outcomeList.ok THEN <<>>
             ELSE IF ~priceList.ok THEN <<>>
             ELSE IF Len(outcomeList.list) # Len(priceList.list) THEN <<>>
             ELSE firstWinner(outcomeList.list, priceList.list, 1)

\* the two encodings of a list of strings the upstream has used: a JSON array
\* of strings, and the elements joined by commas; either with or without
\* spaces around the elements
RECURSIVE Join(_, _, _)
Join(list, sep, quote) ==
    IF list = <<>> THEN <<>>
    ELSE quote \o Head(list) \o quote
         \o (IF Len(list) > 1 THEN sep \o Join(Tail(list), sep, quote) ELSE <<>>)

Encodings == {"json", "json spaced", "delimited", "delimited spaced"}

Encode(encoding, list) ==
    IF encoding = "json" THEN <<"[">> \o Join(list, <<",">>, <<Quote>>) \o <<"]">>
    ELSE IF encoding = "json spaced"
         THEN <<"[", Space>> \o Join(list, <<Space, ",", Space>>, <<Quote>>) \o <<Space, "]">>
    ELSE IF encoding = "delimited" THEN Join(list, <<",">>, <<>>)
    ELSE Join(list, <<",", Space>>, <<>>)

Yes == <<"Y", "e", "s">>
No == <<"N", "o">>

\* price strings with the numbers they write (none for one that is no number)
PriceTexts ==
    { [text |-> <<"0", ".", "9", "8">>, ok |-> TRUE, value |-> <<98, 100>>],
      [text |-> <<"0", ".", "9", "5">>, ok |-> TRUE, value |-> <<95, 100>>],
      [text |-> <<"0", ".", "9", "4">>, ok |-> TRUE, value |-> <<94, 100>>],
      [text |-> <<"0", ".", "0", "2">>, ok |-> TRUE, value |-> <<2, 100>>],
      [text |-> <<"1">>, ok |-> TRUE, value |-> <<1, 1>>],
      [text |-> <<"n", "/", "a">>, ok |-> FALSE, value |-> <<0, 1>>] }

WinnerInputs ==
    { [encoding |-> e, outcomes |-> o, prices |-> p] :
        e \in Encodings,
        o \in {<<>>, <<Yes>>, <<Yes, No>>},
        p \in {<<>>} \cup {<<a>> : a \in PriceTexts}
                \cup {<<a, b>> : a \in PriceTexts, b \in PriceTexts} }

Texts(prices) == [k \in 1..Len(prices) |-> prices[k].text]

InitWinner ==
    /\ PipelineInit
    /\ limiter = NoLimiter
    /\ scoring = NoScoring
    /\ recon = NoRecon
    /\ undelivered = <<>>
    /\ \E i \in WinnerInputs : unit = [phase |-> "in", in |-> i, out |-> NoUnit]

\* RecalculateWinRates calls determineWinner on the two strings of a market
DetermineWinner ==
    /\ unit # NoUnit
    /\ unit.phase = "in"
    /\ unit' = [unit EXCEPT
           !.phase = "out",
           !.out = [winner |-> determineWinner(Encode(unit.in.encoding, unit.in.outcomes),
                                               Encode(unit.in.encoding, Texts(unit.in.prices)))]]
    /\ UNCHANGED <<pipeline, limiter, scoring, recon, undelivered>>

NextWinner == DetermineWinner

SpecWinner == InitWinner /\ [][NextWinner]_vars

\* --------------------------------------------------------------- reconciler
MaxRuns == 2

ReconWallets == {"wA", "wB"}
ReconMarkets == {"m1", "m2"}

ReconTrade(tx, wallet, side, market, outcome, usd) ==
    [proxyWallet |-> wallet, side |-> side, conditionId |-> market, size |-> 2 * usd,
     price |-> <<1, 2>>, timestamp |-> Now0 - 3600, outcome |-> outcome,
     transactionHash |-> tx, usdcSize |-> usd]

\* trades the log can hold when the reconciler runs
ReconTrades ==
    { ReconTrade("r1", "wA", "BUY", "m1", Yes, 10000),
      ReconTrade("r2", "wA", "SELL", "m1", Yes, 10000),
      ReconTrade("r3", "wA", "BUY", "m1", No, 6000),
      ReconTrade("r4", "wB", "SELL", "m1", No, 5000),
      ReconTrade("r5", "wB", "BUY", "m2", Yes, 7000),
      ReconTrade("r6", "wA", "SELL", "m2", Yes, 7000) }

Price(text) == CHOOSE a \in PriceTexts : a.text = text

\* what the market-metadata upstream can answer for a market of the log
ClosedMarket(outcomes, prices) ==
    [ok |-> TRUE, closed |-> TRUE, outcomes |-> Encode("json", outcomes),
     outcomePrices |-> Encode("json", prices)]

ReconAnswers ==
    { [ok |-> FALSE, closed |-> FALSE, outcomes |-> <<>>, outcomePrices |-> <<>>],
      [ClosedMarket(<<Yes, No>>, <<<<"0", ".", "9", "8">>, <<"0", ".", "0", "2">>>>)
         EXCEPT !.closed = FALSE],
      ClosedMarket(<<Yes, No>>, <<<<"0", ".", "9", "8">>, <<"0", ".", "0", "2">>>>),
      ClosedMarket(<<Yes, No>>, <<<<"0", ".", "0", "2">>, <<"1">>>>),
      ClosedMarket(<<Yes, No>>, <<<<"0", ".", "9", "4">>, <<"0", ".", "0", "2">>>>) }

InitReconciler ==
    /\ now = Now0
    /\ app_state = 0
    /\ \E log \in SUBSET ReconTrades : trades_seen = SetToBag({TradeRecord(t) : t \in log})
    /\ wallets = [a \in Wallets |-> NoRow]
    /\ alerts = <<>>
    /\ wallet_market_net = [k \in NetKeys |-> NoRow]
    /\ market_map = [c \in Conditions |-> NoRow]
    /\ sent = <<>>
    /\ workerPool = WalletLookupWorkers
    /\ walletLocks = [a \in Wallets |-> 0]
    /\ cyc = [phase |-> "idle", n |-> 0, lastProcessedTS |-> 0, batch |-> {}, err |-> ""]
    /\ pc = [w \in Worker |-> "idle"]
    /\ loc = [w \in Worker |-> LocInit]
    /\ eff = [w \in Worker |-> <<>>]
    /\ dispatched = {}
    /\ failed = {}
    /\ faults = 0
    /\ shutdown = "none"
    /\ limiter = NoLimiter
    /\ scoring = NoScoring
    /\ unit = NoUnit
    /\ undelivered = <<>>
    /\ recon = [phase |-> "idle", runs |-> 0, conditionIDs |-> {},
                market_resolutions |-> [c \in ReconMarkets |-> NoRow],
                wallet_stats |-> [a \in ReconWallets |-> NoRow]]

\* SELECT DISTINCT condition_id FROM trades_seen
GetAllConditionIDs == {r.condition_id : r \in BagToSet(trades_seen)}

\* WHERE condition_id = ?
GetTradesByConditionID(conditionID) ==
    Where({r \in BagToSet(trades_seen) : r.condition_id = conditionID})

GetMarketResolution(conditionID) == recon.market_resolutions[conditionID]

\* variant: a SELL is counted like a BUY
positionBuyOrSell(trade, winningOutcome) ==
    IF trade.outcome = winningOutcome THEN trade.notional_usd ELSE 0 - trade.notional_usd

\* what one trade adds to its wallet's net position
position(trade, winningOutcome) ==
    IF trade.side = "BUY"
    THEN IF trade.outcome = winningOutcome THEN trade.notional_usd
         ELSE 0 - trade.notional_usd
    ELSE IF trade.outcome = winningOutcome THEN 0 - trade.notional_usd
         ELSE trade.notional_usd

\* the loop over the trades of a market, for one wallet
RECURSIVE netPosition(_, _, _)
netPosition(trades, address, winningOutcome) ==
    IF trades = EmptyBag THEN 0
    ELSE LET trade == CHOOSE r \in BagToSet(trades) : TRUE
             rest == [r \in BagToSet(trades) \ {trade} |-> trades[r]]
         IN  (IF trade.proxy_wallet = address
              THEN trades[trade] * position(trade, winningOutcome) ELSE 0)
             + netPosition(rest, address, winningOutcome)

\* &storage.WalletStats{WalletAddress: walletAddr}
NewWalletStats ==
    [total_resolved_trades |-> 0, winning_trades |-> 0, losing_trades |-> 0,
     win_rate |-> <<0, 1>>]

\* variant: the win rate is recomputed only when the wallet has won
walletStatsRateOnWin(stats, net) ==
    LET old == IF stats = NoRow THEN NewWalletStats ELSE stats
        total == old.total_resolved_trades + 1
        wins == old.winning_trades + (IF net > 0 THEN 1 ELSE 0)
    IN  [total_resolved_trades |-> total,
         winning_trades |-> wins,
         losing_trades |-> old.losing_trades + (IF net < 0 THEN 1 ELSE 0),
         win_rate |-> IF net > 0 THEN Frac(wins, total) ELSE old.win_rate]

\* the row updateWalletStatsForResolution writes for a wallet with the given
\* net position in the market
walletStats(stats, net) ==
    LET old == IF stats = NoRow THEN NewWalletStats ELSE stats
        total == old.total_resolved_trades + 1
        wins == old.winning_trades + (IF net > 0 THEN 1 ELSE 0)
    IN  [total_resolved_trades |-> total,
         winning_trades |-> wins,
         losing_trades |-> old.losing_trades + (IF net < 0 THEN 1 ELSE 0),
         win_rate |-> IF total > 0 THEN Frac(wins, total) ELSE old.win_rate]

\* the wallet_stats table after updateWalletStatsForResolution
updateWalletStatsForResolution(conditionID, winningOutcome) ==
    LET trades == GetTradesByConditionID(conditionID)
        walletPositions == {r.proxy_wallet : r \in BagToSet(trades)}
    IN  [a \in ReconWallets |->
            IF a \in walletPositions
            THEN walletStats(GetWalletStats(a), netPosition(trades, a, winningOutcome))
            ELSE GetWalletStats(a)]

\* a run of RecalculateWinRates starts: it lists the markets of the trade log.
\* Runs are started at startup and by the 24-hour ticker, one after another.
RecalculateWinRates ==
    /\ recon # NoRecon
    /\ recon.phase = "idle"
    /\ recon.runs < MaxRuns
    /\ recon' = [recon EXCEPT !.phase = "running", !.runs = @ + 1,
                              !.conditionIDs = GetAllConditionIDs]
    /\ UNCHANGED <<pipeline, limiter, scoring, unit, undelivered>>

\* one pass of the loop of RecalculateWinRates, for one market and one answer
\* of the upstream
ReconcileMarket(conditionID, market) ==
    /\ recon # NoRecon
    /\ recon.phase = "running"
    /\ conditionID \in recon.conditionIDs
    /\ LET winningOutcome == determineWinner(market.outcomes, market.outcomePrices)
       IN  IF \/ GetMarketResolution(conditionID) # NoRow
              \/ ~market.ok
              \/ ~market.closed
              \/ winningOutcome = <<>>
           THEN recon' = [recon EXCEPT !.conditionIDs = @ \ {conditionID}]
           ELSE recon' = [recon EXCEPT
                    !.conditionIDs = @ \ {conditionID},
                    !.market_resolutions[conditionID] = [winning_outcome |-> winningOutcome],
                    !.wallet_stats = updateWalletStatsForResolution(conditionID, winningOutcome)]
    /\ UNCHANGED <<pipeline, limiter, scoring, unit, undelivered>>

\* the run ends when the loop is through
RecalculateWinRatesDone ==
    /\ recon # NoRecon
    /\ recon.phase = "running"
    /\ recon.conditionIDs = {}
    /\ recon' = [recon EXCEPT !.phase = "idle"]
    /\ UNCHANGED <<pipeline, limiter, scoring, unit, undelivered>>

NextReconciler ==
    \/ RecalculateWinRates
    \/ \E c \in ReconMarkets, market \in ReconAnswers : ReconcileMarket(c, market)
    \/ RecalculateWinRatesDone

SpecReconciler == InitReconciler /\ [][NextReconciler]_vars

\* --------------------------------------------------------- MultiSender.Send
MaxSenders == 5

InitMultiSender ==
    /\ PipelineInit
    /\ limiter = NoLimiter
    /\ scoring = NoScoring
    /\ recon = NoRecon
    /\ undelivered = <<>>
    /\ \E n \in 1..MaxSenders :
          unit = [phase |-> "loop", senders |-> n, i |-> 1, calls |-> <<>>,
                  results |-> <<>>, errs |-> <<>>, out |-> NoUnit]

\* variant: the loop ends at the first sender that fails
afterSenderStopOnError(i, n, err) == IF err THEN n + 1 ELSE i + 1

\* the index the loop of Send goes on with after sender i has returned
afterSender(i, n, err) == i + 1

\* one pass of the loop of Send: sender i is called and returns nil or an
\* error, which is appended to errs
SenderSend(err) ==
    /\ unit # NoUnit
    /\ unit.phase = "loop"
    /\ unit.i <= unit.senders
    /\ unit' = [unit EXCEPT
           !.calls = Append(@, unit.i),
           !.results = Append(@, err),
           !.errs = IF err THEN Append(@, unit.i) ELSE @,
           !.i = afterSender(unit.i, unit.senders, err)]
    /\ UNCHANGED <<pipeline, limiter, scoring, recon, undelivered>>

\* after the loop: an error when errs is not empty, nil otherwise
MultiSenderReturn ==
    /\ unit # NoUnit
    /\ unit.phase = "loop"
    /\ unit.i > unit.senders
    /\ unit' = [unit EXCEPT !.phase = "out",
                            !.out = IF Len(unit.errs) > 0 THEN "error" ELSE "nil"]
    /\ UNCHANGED <<pipeline, limiter, scoring, recon, undelivered>>

NextMultiSender ==
    \/ \E err \in BOOLEAN : SenderSend(err)
    \/ MultiSenderReturn

SpecMultiSender == InitMultiSender /\ [][NextMultiSender]_vars

\* ------------------------------------------------- fingerprint and dedup
\* trades of one second with one size and price, as the upstream lists them:
\* fills of one transaction carry the same transaction hash
FingerprintTrades ==
    { [proxyWallet |-> a, side |-> sd, conditionId |-> c, size |-> 100000,
       price |-> <<1, 2>>, timestamp |-> Now0 - 3600, outcome |-> o,
       transactionHash |-> tx, usdcSize |-> 50000] :
        a \in {"wA", "wB"}, sd \in {"BUY", "SELL"}, c \in {"m1", "m2"},
        o \in {"YES", "NO"}, tx \in {"", "tx1", "tx2"} }

InitFingerprint ==
    /\ PipelineInit
    /\ limiter = NoLimiter
    /\ scoring = NoScoring
    /\ recon = NoRecon
    /\ undelivered = <<>>
    /\ \E first \in FingerprintTrades, second \in FingerprintTrades :
          unit = [phase |-> "first", first |-> first, second |-> second, out |-> NoUnit]

\* processTrade of the first trade up to InsertTrade: its row is stored under
\* its fingerprint
RecordFirst ==
    /\ unit # NoUnit
    /\ unit.phase = "first"
    /\ ~HasTradeSeen(calculateTradeHash(unit.first))
    /\ trades_seen' = trades_seen (+) SetToBag({TradeRecord(unit.first)})
    /\ unit' = [unit EXCEPT !.phase = "second"]
    /\ UNCHANGED <<now, app_state, wallets, alerts, wallet_market_net, market_map, sent,
                   workerPool, walletLocks, cyc, pc, loc, eff, dispatched, failed, faults,
                   shutdown, limiter, scoring, recon, undelivered>>

\* processTrade of the second trade up to the test of HasTradeSeen
DedupSecond ==
    /\ unit # NoUnit
    /\ unit.phase = "second"
    /\ unit' = [unit EXCEPT
           !.phase = "out",
           !.out = IF HasTradeSeen(calculateTradeHash(unit.second))
                   THEN "duplicate" ELSE "new"]
    /\ UNCHANGED <<pipeline, limiter, scoring, recon, undelivered>>

NextFingerprint == RecordFirst \/ DedupSecond

SpecFingerprint == InitFingerprint /\ [][NextFingerprint]_vars

\* ------------------------------------------------------ claims C11 to C20
InFlight == {w \in Worker : pc[w] \notin {"idle", "done"}}

InWait(p) == limiter.caller[p].pc \in {"tryTake", "refill", "check", "take", "got", "select"}

\* C12: rate limiter liveness.  Under fair scheduling and advancing time, a
\* caller inside Wait gets nil unless the context is cancelled.
C12_WaitReturns ==
    \A p \in Callers : InWait(p) ~> (limiter.caller[p].pc = "ok" \/ limiter.ctx)

\* C13: rate limiter bound.  The token count stays between 0 and the
\* capacity, every Wait that returned nil or is about to has taken one token
\* of its own, and the tokens taken since New are at most the capacity plus
\* rate times the elapsed time.
C13_LimiterBound ==
    limiter # NoLimiter =>
        /\ limiter.tokens >= 0
        /\ limiter.tokens <= limiter.maxTokens
        /\ limiter.taken = limiter.granted
               + Cardinality({p \in Callers : limiter.caller[p].pc = "got"})
        /\ limiter.clock < MaxLimTicks =>
               TokenUnit * limiter.taken <= limiter.maxTokens + limiter.rate * limiter.clock

\* both callers were in tryTake together on a bucket of one token, and the
\* one that found it empty got its token after the refill
C13_Witness ==
    /\ limiter # NoLimiter
    /\ limiter.maxTokens = TokenUnit
    /\ limiter.granted = 2
    /\ \A p \in Callers : limiter.caller[p].calls = 1 /\ limiter.caller[p].pc = "ok"
    /\ limiter.clock = LimTicksPerSec
    /\ ~limiter.ctx

\* C14: rate limiter cancellation.  Once the context is cancelled no Wait
\* returns nil and no token is taken.
C14_WaitCancelled ==
    [][(limiter # NoLimiter /\ limiter.ctx) =>
          /\ limiter'.taken = limiter.taken
          /\ limiter'.granted = limiter.granted]_vars

\* the workers that made the first-activity lookup for an address
Lookups(address) ==
    {w \in Worker : /\ Trade(w).proxyWallet = address
                    /\ pc[w] = "create" \/ Has(w, "wallet_create")}

\* C15: wallet creation is exclusive.  Of the workers that call
\* getOrCreateWallet for the same new address at most one makes the
\* first-activity lookup, it makes it while no row exists, and once it has
\* upserted the row exists.
C15_WalletCreationExclusive ==
    \A a \in Wallets :
        /\ Cardinality(Lookups(a)) <= 1
        /\ \A w \in Lookups(a) :
               /\ pc[w] = "create" => wallets[a] = NoRow /\ walletLocks[a] = w
               /\ Has(w, "wallet_create") => wallets[a] # NoRow

\* one worker created the row while another worker of the same address was
\* waiting for the lock
C15_Witness ==
    \E w1, w2 \in Worker :
        /\ w1 # w2
        /\ Trade(w1).proxyWallet = Trade(w2).proxyWallet
        /\ Has(w1, "wallet_create")
        /\ pc[w2] = "lock"
        /\ wallets[Trade(w1).proxyWallet] # NoRow

\* C16: wallet row invariants.  A wallets row is never deleted, its
\* first_seen_ts never changes and its total_trades never decreases.
C16_WalletRow ==
    [][\A a \in Wallets :
          wallets[a] # NoRow =>
              /\ wallets'[a] # NoRow
              /\ wallets'[a].first_seen_ts = wallets[a].first_seen_ts
              /\ wallets'[a].total_trades >= wallets[a].total_trades]_vars

\* a row whose counters were updated in two cycles
C16_Witness ==
    \E a \in Wallets :
        /\ wallets[a] # NoRow
        /\ wallets[a].total_trades > 2
        /\ cyc.n = 2
        /\ \E w \in Worker : Trade(w).proxyWallet = a /\ Has(w, "wallets")

ScoreDone == scoring # NoScoring /\ scoring.phase = "out"

\* notional / max(walletAgeDays, 1) of the scored trade
ScoreFloor ==
    LET age == walletAgeDays(scoring.in.trade, scoring.in.wallet)
    IN  <<calculateNotional(scoring.in.trade), IF age < 1 THEN 1 ELSE age>>

\* x >= n / d for a fraction x and d > 0, without the product x[1] * d
AtLeast(x, n, d) == x[1] >= (n * x[2] + d - 1) \div d

\* the hours to close of the scored trade (whole hours in InitScore)
ScoreHours == secsToClose(scoring.in.trade, scoring.in.marketInfo) \div SecPerHour

\* none of the ten signals holds for the scored trade
NoSignal ==
    LET i == scoring.in
        notional == calculateNotional(i.trade)
        funding == fundingAgeSecs(i.wallet)
    IN  /\ \/ i.walletStats = NoRow
           \/ i.walletStats.total_resolved_trades < 5
           \/ i.walletStats.win_rate[1] * MinWinRateThreshold[2]
                  < MinWinRateThreshold[1] * i.walletStats.win_rate[2]
        /\ i.wallet.total_trades # 0
        /\ funding = 0 \/ funding > 24 * SecPerHour
        /\ i.marketInfo.liquidityNum = 0 \/ notional * 100 <= 5 * i.marketInfo.liquidityNum
        /\ i.trade.price[1] * 100 < 85 * i.trade.price[2]
        /\ i.trade.price[1] * 100 > 15 * i.trade.price[2]
        /\ i.concentration[1] * 100 <= 90 * i.concentration[2]
        /\ i.velocityCount < VelocityThreshold
        /\ i.cluster = NoRow
        /\ ~i.isCoordinated

\* C18: score lower bound.  Every multiplier is at least 1, the base score
\* with its time-to-close multiplier and the final score are at least
\* notional / max(age, 1), and with no signal the final score is the base
\* score times the time-to-close multiplier.
C18_ScoreLowerBound ==
    ScoreDone =>
        /\ \A k \in 1..Len(scoring.out.multipliers) :
               scoring.out.multipliers[k][1] >= scoring.out.multipliers[k][2]
        /\ Len(scoring.out.multipliers) = 10
        /\ AtLeast(scoring.out.score, ScoreFloor[1], ScoreFloor[2])
        /\ AtLeast(scoring.out.final, ScoreFloor[1], ScoreFloor[2])
        /\ NoSignal => scoring.out.final = scoring.out.score

\* every signal but first-trade-large holds
C18_Witness ==
    /\ ScoreDone
    /\ \A k \in (1..10) \ {2, 10} :
           scoring.out.multipliers[k][1] > scoring.out.multipliers[k][2]
    /\ fundingAgeSecs(scoring.in.wallet) > 0
    /\ ScoreHours > 0 /\ ScoreHours < TimeToCloseHoursMax

C20_Severity ==
    ScoreDone =>
        LET S == scoring.out.final
            geAlert == S[1] >= SuspicionScoreAlert * S[2]
            geWarn == S[1] >= SuspicionScoreWarn * S[2]
        IN  /\ scoring.out.severity = "ALERT" <=> geAlert
            /\ scoring.out.severity = "WARN" <=> (geWarn /\ ~geAlert)
            /\ scoring.out.severity = "INFO" <=> ~geWarn
            /\ scoring.out.severity = "INFO" => ~scoring.out.sendAlert

\* a final score equal to the alert threshold: ALERT, and sendAlert is called
C20_Witness ==
    /\ ScoreDone
    /\ scoring.out.final = <<SuspicionScoreAlert, 1>>
    /\ scoring.out.severity = "ALERT"
    /\ scoring.out.sendAlert

\* C21: win-rate guard.  The first multiplier is 1 + winRate when the wallet
\* has at least 5 resolved trades and winRate >= the threshold, and 1
\* otherwise; with fewer than 5 resolved trades it is 1 whatever the rate.
C21_WinRateGuard ==
    ScoreDone =>
        LET st == scoring.in.walletStats
            enough == st # NoRow /\ st.total_resolved_trades >= 5
            high == st # NoRow /\ st.win_rate[1] * MinWinRateThreshold[2]
                                    >= MinWinRateThreshold[1] * st.win_rate[2]
            m == scoring.out.multipliers[1]
        IN  /\ (enough /\ high) => /\ m[1] * st.win_rate[2] = (st.win_rate[1] + st.win_rate[2]) * m[2]
                                   /\ m[1] > m[2]
            /\ ~(enough /\ high) => m = FOne
            /\ ~enough => m = FOne

\* a wallet with 4 resolved trades, all won: the multiplier is not applied
C21_Witness ==
    /\ ScoreDone
    /\ scoring.in.walletStats # NoRow
    /\ scoring.in.walletStats.total_resolved_trades = 4
    /\ scoring.in.walletStats.win_rate = FOne
    /\ scoring.out.multipliers[1] = FOne
    /\ NoSignal

\* the liquidity multiplier of the tiers for r = notional / liquidity
LiquidityTier(notional, liquidity) ==
    IF liquidity = 0 THEN FOne
    ELSE IF 100 * notional >= 50 * liquidity THEN <<3, 1>>
    ELSE IF 100 * notional >= 20 * liquidity THEN <<2, 1>>
    ELSE IF 100 * notional >= 10 * liquidity THEN <<3, 2>>
    ELSE IF 100 * notional >= 5 * liquidity THEN <<6, 5>>
    ELSE FOne

\* C22: liquidity tiers.  The liquidity multiplier is 3 for r >= 0.50, 2 for
\* 0.20 <= r < 0.50, 1.5 for 0.10 <= r < 0.20, 1.2 for 0.05 <= r < 0.10 and 1
\* below 0.05 or without liquidity.
C22_LiquidityTiers ==
    ScoreDone =>
        scoring.out.multipliers[4] =
            LiquidityTier(calculateNotional(scoring.in.trade), scoring.in.marketInfo.liquidityNum)

WinnerDone == unit # NoUnit /\ unit.phase = "out"

\* the first outcome whose price is a number >= 0.95, <<>> when there is none
\* or the lists are empty or of different lengths
ExpectedWinner(outcomes, prices) ==
    LET winners == {k \in 1..Len(prices) :
                        prices[k].ok /\ 100 * prices[k].value[1] >= 95 * prices[k].value[2]}
    IN  IF Len(outcomes) = 0 \/ Len(outcomes) # Len(prices) \/ winners = {} THEN <<>>
        ELSE outcomes[CHOOSE k \in winners : \A j \in winners : k <= j]

\* C25: outcome parsing accepts both encodings.  The winner found for the
\* comma-delimited strings of two lists is the winner found for their JSON
\* arrays.
C25_BothEncodings ==
    WinnerDone =>
        unit.out.winner = determineWinner(Encode("json", unit.in.outcomes),
                                          Encode("json", Texts(unit.in.prices)))

ResolvedFor(address) ==
    {c \in ReconMarkets :
        /\ recon.market_resolutions[c] # NoRow
        /\ \E r \in BagToSet(trades_seen) : r.condition_id = c /\ r.proxy_wallet = address}

\* C23: WalletStats invariant.  After any sequence of reconciler runs every
\* wallet_stats row has winning_trades + losing_trades <= total_resolved_trades,
\* and win_rate = winning_trades / total_resolved_trades when
\* total_resolved_trades > 0 and 0 otherwise.
C23_WalletStatsInvariant ==
    recon # NoRecon =>
        \A a \in ReconWallets :
            LET stats == recon.wallet_stats[a]
            IN  stats # NoRow =>
                    /\ stats.winning_trades + stats.losing_trades <= stats.total_resolved_trades
                    /\ IF stats.total_resolved_trades > 0
                       THEN stats.win_rate[1] * stats.total_resolved_trades
                                = stats.winning_trades * stats.win_rate[2]
                       ELSE stats.win_rate[1] = 0

\* after two runs a wallet has one win and one hedged market: two resolved
\* trades, one winning, none losing, win rate 1/2
C23_Witness ==
    /\ recon # NoRecon
    /\ recon.runs = 2
    /\ recon.phase = "idle"
    /\ recon.wallet_stats["wA"] # NoRow
    /\ recon.wallet_stats["wA"].total_resolved_trades = 2
    /\ recon.wallet_stats["wA"].winning_trades = 1
    /\ recon.wallet_stats["wA"].losing_trades = 0

\* the net position of a wallet in a market as the rule states it
NetByRule(address, conditionID, winner) ==
    LET rows == {r \in BagToSet(trades_seen) :
                    r.condition_id = conditionID /\ r.proxy_wallet = address}
        plus == {r \in rows : \/ r.side = "BUY" /\ r.outcome = winner
                              \/ r.side = "SELL" /\ r.outcome # winner}
    IN  SumNotional(plus) - SumNotional(rows \ plus)

SendCalls == Len(sent) + Cardinality({k \in 1..Len(undelivered) : ~undelivered[k].delivered})

\* C27: alert persistence on sink failure.  When alertSender.Send has returned
\* an error, the alert row inserted before it is still stored, the last alert
\* of the wallet, from which the cooldown counts, is that row or a later one,
\* and the delivery is not made again: the run that met the error has ended
\* with it, and there is one call of Send for each stored row.
C27_AlertPersists ==
    /\ \A k \in 1..Len(undelivered) :
          LET u == undelivered[k]
              last == GetLastAlertForWallet(u.wallet_address)
          IN  /\ u.row <= Len(alerts)
              /\ alerts[u.row].wallet_address = u.wallet_address
              /\ alerts[u.row].created_ts = u.created_ts
              /\ last # NoRow
              /\ last.created_ts >= u.created_ts
    /\ \A w \in Worker :
          Has(w, "send failed") =>
              /\ eff[w][Len(eff[w])] = "send failed"
              /\ ~Has(w, "send")
              /\ pc[w] = "done"
    /\ SendCalls = Len(alerts)

\* a delivery has failed at every sink, the row is stored, and a later trade
\* of the wallet was held back by the cooldown that counts from that row
C27_Witness ==
    /\ Len(undelivered) = 1
    /\ ~undelivered[1].delivered
    /\ Len(alerts) = 1
    /\ sent = <<>>
    /\ cyc.n >= 1
    /\ \E w \in Worker :
          /\ w # undelivered[1].worker
          /\ pc[w] = "done"
          /\ Has(w, "trades_seen")
          /\ loc[w].severity # "INFO"
          /\ ~Has(w, "alerts")

\* C28: sink fan-out.  When MultiSender.Send returns it has called every
\* configured sink exactly once, in the order configured, whichever of them
\* failed, and it returns an error if and only if at least one sink failed.
C28_FanOut ==
    (unit # NoUnit /\ unit.phase = "out") =>
        /\ unit.calls = [k \in 1..unit.senders |-> k]
        /\ unit.out = "error" <=> \E k \in 1..Len(unit.results) : unit.results[k]

\* the first of three sinks failed, the other two were called and delivered,
\* and Send returned an error
C28_Witness ==
    /\ unit # NoUnit
    /\ unit.phase = "out"
    /\ unit.senders = 3
    /\ unit.results = <<TRUE, FALSE, FALSE>>
    /\ unit.calls = <<1, 2, 3>>
    /\ unit.out = "error"

\* C29: fingerprint identity.  A trade dropped as a duplicate of a recorded
\* trade is the same event: it does not differ from the recorded trade in
\* wallet, market, side or outcome.
C29_FingerprintIdentity ==
    (unit # NoUnit /\ unit.phase = "out" /\ unit.out = "duplicate") =>
        /\ unit.second.proxyWallet = unit.first.proxyWallet
        /\ unit.second.conditionId = unit.first.conditionId
        /\ unit.second.side = unit.first.side
        /\ unit.second.outcome = unit.first.outcome

\* the causes of rejection as the rule lists them
RejectedByRule(trade, marketInfo, tnow) ==
    LET ended == marketInfo.endDate > 0 /\ trade.timestamp >= marketInfo.endDate
        distant == marketInfo.endDate > 0 /\ marketInfo.endDate - tnow > TwoMonthsSec
    IN  \/ isNotInsiderCategory(marketInfo.category)
        \/ ended
        \/ distant
        \/ trade.side \notin {"BUY", "SELL"}
        \/ trade.outcome = ""
        \/ calculateNotional(trade) < MinTradeUSD

\* C30: rejected trades leave state unchanged.  A trade that the filters
\* reject (excluded category, market ended or ending more than two months
\* ahead, side not BUY or SELL, empty outcome, notional below the minimum) never
\* goes on to the wallet lookup; its run returns in a step that changes no
\* trades_seen row, no wallet row, no ledger row and no alert and delivers
\* nothing, and the run has written nothing but the market cache.
C30_RejectedFrame ==
    [][\A w \in Worker :
          /\ (pc[w] \in {"resolve", "cache"} /\ pc'[w] \notin {"resolve", "cache", "done"})
                => ~RejectedByRule(Trade(w), loc'[w].marketInfo, now)
          /\ (pc[w] \in {"resolve", "cache"} /\ pc'[w] = "done")
                => /\ trades_seen' = trades_seen
                   /\ wallets' = wallets
                   /\ wallet_market_net' = wallet_market_net
                   /\ alerts' = alerts
                   /\ sent' = sent
                   /\ eff'[w] \in {<<>>, <<"market_map">>}]_vars

\* the third trade is below the minimum notional: after the cycle its run has
\* ended without a row under its fingerprint, while the first trade, of the
\* same wallet and market, was recorded
C30_Witness ==
    /\ unit # NoUnit
    /\ "trades" \in DOMAIN unit
    /\ calculateNotional(Trade(3)) < MinTradeUSD
    /\ cyc.phase = "idle"
    /\ cyc.n >= 1
    /\ pc[3] = "done"
    /\ eff[3] = <<>>
    /\ ~HasTradeSeen(calculateTradeHash(Trade(3)))
    /\ HasTradeSeen(calculateTradeHash(Trade(1)))

\* ------------------------------------------------------ claims C31 to C40
\* the goroutines of the cycle that have not ended
Running == {w \in Worker : pc[w] \notin {"idle", "done"}}

\* a goroutine waits for a permit of the pool or for the lock of its wallet
Waiting(w) ==
    \/ pc[w] = "acquire" /\ workerPool = 0
    \/ pc[w] = "lock" /\ walletLocks[Trade(w).proxyWallet] # 0

\* the goroutines of the cycle whose processTrade returned an error
Erred == {w \in Worker : pc[w] = "done" /\ loc[w].err # ""}

\* C31: worker error isolation.  When processTrade has returned an error for
\* a trade, the other goroutines of the batch are not held up (one of those
\* that have not ended waits neither for a permit nor for a lock), each of them
\* that has ended without an error has its trade recorded, and ProcessTrades
\* returns nil.
C31_ErrorIsolation ==
    Erred # {} =>
        /\ Running # {} => \E u \in Running : ~Waiting(u)
        /\ \A u \in Worker :
              (pc[u] = "done" /\ loc[u].err = "") => HasTradeSeen(Fingerprint(u))
        /\ cyc.phase = "idle" => cyc.err = ""

\* the run of trade 1 met a storage error, the run of trade 3 of the same
\* batch recorded its trade, and ProcessTrades has returned
C31_Witness ==
    /\ cyc.phase = "idle"
    /\ cyc.n >= 1
    /\ cyc.batch = {1, 3}
    /\ 1 \in Erred
    /\ 1 \in failed
    /\ pc[3] = "done"
    /\ loc[3].err = ""
    /\ Has(3, "trades_seen")

\* the permits New has put into the pool
PoolSize ==
    IF unit # NoUnit /\ "workers" \in DOMAIN unit THEN unit.workers ELSE WalletLookupWorkers

\* the goroutines that hold a permit: they have received from the pool and
\* have not ended
Holders == {w \in Worker : pc[w] \notin {"idle", "acquire", "done"}}

\* C32: worker pool bound.  At every moment at most N goroutines are in
\* processTrade, every permit is either in the pool or held by one of them, and
\* when ProcessTrades has returned all N permits are in the pool, also after a
\* goroutine ended with an error.
C32_PoolBound ==
    /\ Cardinality(Holders) <= PoolSize
    /\ workerPool + Cardinality(Holders) = PoolSize
    /\ cyc.phase = "idle" => workerPool = PoolSize

\* with one permit, two goroutines of a batch have run one after the other,
\* the first of them ended with an error, the second recorded its trade, and
\* the permit is back in the pool
C32_Witness ==
    /\ PoolSize = 1
    /\ cyc.phase = "idle"
    /\ Cardinality(cyc.batch) = 2
    /\ \A w \in cyc.batch : pc[w] = "done"
    /\ \E u, v \in cyc.batch :
          /\ u \in failed
          /\ loc[u].err # ""
          /\ eff[u] = <<>>
          /\ Has(v, "trades_seen")
    /\ workerPool = 1

\* the recorded trades of a wallet in the window of the given length that
\* ends with the current trade
RecordedInWindow(address, currentTS, windowSecs) ==
    Where({r \in BagToSet(trades_seen) :
              /\ r.proxy_wallet = address
              /\ r.timestamp_sec >= currentTS - windowSecs
              /\ r.timestamp_sec <= currentTS})

\* C33: velocity count.  When a goroutine scores its trade, whose row is
\* recorded, the count used for the velocity multiplier is the number of the
\* wallet's recorded trades within the last VELOCITY_WINDOW_MINUTES of the
\* trade, the trade itself counted once.
C33_VelocityCount ==
    \A w \in Worker :
        pc[w] = "signals" =>
            checkTradeVelocity(Trade(w).proxyWallet, Trade(w).timestamp)
                = BagCardinality(RecordedInWindow(Trade(w).proxyWallet, Trade(w).timestamp,
                                                  VelocityWindowMinutes * 60))

\* <<buy, sell>>: the gross BUY and SELL notionals of the recorded trades of a
\* wallet in a market from the start of the lookback window of the current
\* trade on
GrossVolumes(address, conditionID, currentTS) ==
    LET rows == {r \in BagToSet(trades_seen) :
                    /\ r.proxy_wallet = address
                    /\ r.condition_id = conditionID
                    /\ r.timestamp_sec >= currentTS - NetPositionWindowHrs * 3600}
    IN  <<SumNotional({r \in rows : r.side = "BUY"}), SumNotional({r \in rows : r.side = "SELL"})>>

\* C34: concentration ratio.  When a goroutine scores its trade, whose row is
\* recorded, checkNetPositionConcentration returns max(buy, sell) / (buy +
\* sell) over the gross BUY and SELL notionals of the wallet's recorded trades
\* in the market within the lookback window, the trade itself included once,
\* and 0 when the total is 0.
C34_ConcentrationRatio ==
    \A w \in Worker :
        pc[w] = "signals" =>
            LET trade == Trade(w)
                ratio == checkNetPositionConcentration(trade.proxyWallet, trade.conditionId,
                             trade.timestamp, calculateNotional(trade), trade.side)
                gross == GrossVolumes(trade.proxyWallet, trade.conditionId, trade.timestamp)
                total == gross[1] + gross[2]
            IN  IF total = 0 THEN ratio[1] = 0
                ELSE ratio[1] * total = max(gross[1], gross[2]) * ratio[2]

\* ------------------------------------------------------------ cluster tracker
MaxClusterTrades == 3   \* trades of cluster wallets that are processed

ClusterLookbackHours == 24
CoordinatedWindowSec == 3600

ClusterWallets == {"wA", "wB", "wC"}
ClusterMarkets == {"m1", "m2"}
FundingSources == {"s1"}
ClusterTimes == {Now0 - 90000, Now0 - 5400, Now0 - 1800, Now0}

\* the funding source the first activity of each wallet names ("" for none),
\* the position of the trackFundingSource call of each wallet with its local
\* variable cluster, and the tables wallet_funding_sources, wallet_clusters,
\* trades_seen and coordinated_trades
InitCluster ==
    /\ PipelineInit
    /\ limiter = NoLimiter
    /\ scoring = NoScoring
    /\ recon = NoRecon
    /\ undelivered = <<>>
    /\ \E funding \in [ClusterWallets -> FundingSources \cup {""}] :
          unit = [funding |-> funding,
                  tpc |-> [a \in ClusterWallets |-> "idle"],
                  cluster |-> [a \in ClusterWallets |-> NoRow],
                  wallet_funding_sources |-> [a \in ClusterWallets |-> ""],
                  wallet_clusters |-> [f \in FundingSources |-> NoRow],
                  trades_seen |-> {},
                  coordinated_trades |-> <<>>,
                  last |-> NoRow]

\* WHERE wallet_address = ?  ("" when there is no row)
GetWalletFundingSource(walletAddress) == unit.wallet_funding_sources[walletAddress]

\* WHERE funding_source = ?
GetWalletClusterBySource(fundingSource) == unit.wallet_clusters[fundingSource]

\* the wallets of wallet_funding_sources WHERE funding_source = ?
GetWalletsByFundingSource(fundingSource) ==
    {a \in ClusterWallets : unit.wallet_funding_sources[a] = fundingSource}

\* the rows of the given table WHERE proxy_wallet IN ? AND timestamp_sec >= ?
GetRecentTradesForCluster(table, walletAddrs, lookbackTS) ==
    {r \in table : r.proxy_wallet \in walletAddrs /\ r.timestamp_sec >= lookbackTS}

\* the cluster row trackFundingSource upserts, given the row it has read
trackedCluster(cluster) ==
    IF cluster = NoRow THEN [wallet_count |-> 1]
    ELSE [wallet_count |-> cluster.wallet_count + 1]

\* trackFundingSource, first statement: the funding source of the wallet is stored
UpsertWalletFundingSource(a) ==
    /\ unit # NoUnit /\ "tpc" \in DOMAIN unit
    /\ unit.tpc[a] = "idle"
    /\ unit.funding[a] # ""
    /\ unit' = [unit EXCEPT !.wallet_funding_sources[a] = unit.funding[a],
                            !.tpc[a] = "source"]
    /\ UNCHANGED <<pipeline, limiter, scoring, recon, undelivered>>

\* trackFundingSource, second statement: the cluster of the source is read
TrackGetCluster(a) ==
    /\ unit # NoUnit /\ "tpc" \in DOMAIN unit
    /\ unit.tpc[a] = "source"
    /\ unit' = [unit EXCEPT !.cluster[a] = GetWalletClusterBySource(unit.funding[a]),
                            !.tpc[a] = "cluster"]
    /\ UNCHANGED <<pipeline, limiter, scoring, recon, undelivered>>

\* trackFundingSource, third statement: the new or incremented cluster is upserted
UpsertWalletCluster(a) ==
    /\ unit # NoUnit /\ "tpc" \in DOMAIN unit
    /\ unit.tpc[a] = "cluster"
    /\ unit' = [unit EXCEPT !.wallet_clusters[unit.funding[a]] = trackedCluster(unit.cluster[a]),
                            !.tpc[a] = "done"]
    /\ UNCHANGED <<pipeline, limiter, scoring, recon, undelivered>>

SetMin(S) == CHOOSE x \in S : \A y \in S : x <= y
SetMax(S) == CHOOSE x \in S : \A y \in S : x >= y

\* the guard of the analysis: the current trade is added to the wallets below
enoughSameMarketTrades(sameMarketTrades) == Cardinality(sameMarketTrades) >= 1

\* variant: the trades must lie strictly less than an hour apart
withinWindowStrict(firstTS, lastTS) == lastTS - firstTS < CoordinatedWindowSec

\* timeWindowSec <= 3600
withinWindow(firstTS, lastTS) == lastTS - firstTS <= CoordinatedWindowSec

\* detectCoordinatedTrade over the given trades_seen table: the flag and the
\* figures of the CoordinatedTrade record
detectCoordinatedTrade(table, trade, walletAddress) ==
    LET fundingSource == GetWalletFundingSource(walletAddress)
        none == [flag |-> FALSE, wallet_count |-> 0, first_trade_ts |-> 0, last_trade_ts |-> 0]
    IN  IF fundingSource = "" THEN none
        ELSE LET cluster == GetWalletClusterBySource(fundingSource)
             IN  IF cluster = NoRow \/ cluster.wallet_count <= 1 THEN none
                 ELSE LET walletAddrs == GetWalletsByFundingSource(fundingSource)
                          lookbackTS == trade.timestamp_sec - ClusterLookbackHours * 3600
                          recentTrades == GetRecentTradesForCluster(table, walletAddrs, lookbackTS)
                          sameMarketTrades ==
                              {t \in recentTrades : t.condition_id = trade.condition_id}
                          uniqueWallets ==
                              {walletAddress} \cup {t.proxy_wallet : t \in sameMarketTrades}
                          stamps == {trade.timestamp_sec}
                                       \cup {t.timestamp_sec : t \in sameMarketTrades}
                          firstTS == SetMin(stamps)
                          lastTS == SetMax(stamps)
                      IN  IF /\ enoughSameMarketTrades(sameMarketTrades)
                             /\ withinWindow(firstTS, lastTS)
                             /\ Cardinality(uniqueWallets) >= 2
                          THEN [flag |-> TRUE, wallet_count |-> Cardinality(uniqueWallets),
                                first_trade_ts |-> firstTS, last_trade_ts |-> lastTS]
                          ELSE none

\* a worker processes a trade of a wallet whose row exists (its funding source,
\* if it has one, is tracked): the trade is recorded, then detectCoordinatedTrade
\* runs and appends a CoordinatedTrade record when it flags the trade
ClusterTrade(a, c, ts) ==
    /\ unit # NoUnit /\ "tpc" \in DOMAIN unit
    /\ unit.funding[a] = "" \/ unit.tpc[a] = "done"
    /\ Cardinality(unit.trades_seen) < MaxClusterTrades
    /\ LET trade == [proxy_wallet |-> a, condition_id |-> c, timestamp_sec |-> ts]
           table == unit.trades_seen \cup {trade}
           found == detectCoordinatedTrade(table, trade, a)
       IN  /\ trade \notin unit.trades_seen
           /\ unit' = [unit EXCEPT
                  !.trades_seen = table,
                  !.coordinated_trades =
                      IF found.flag
                      THEN Append(@, [condition_id |-> c, wallet_count |-> found.wallet_count,
                                      first_trade_ts |-> found.first_trade_ts,
                                      last_trade_ts |-> found.last_trade_ts])
                      ELSE @,
                  !.last = [trade |-> trade, flag |-> found.flag,
                            cluster |-> IF GetWalletFundingSource(a) = "" THEN NoRow
                                        ELSE GetWalletClusterBySource(GetWalletFundingSource(a)),
                            members |-> IF GetWalletFundingSource(a) = "" THEN {}
                                        ELSE GetWalletsByFundingSource(GetWalletFundingSource(a)),
                            before |-> Len(unit.coordinated_trades)]]
    /\ UNCHANGED <<pipeline, limiter, scoring, recon, undelivered>>

NextCluster ==
    \/ \E a \in ClusterWallets : UpsertWalletFundingSource(a)
    \/ \E a \in ClusterWallets : TrackGetCluster(a)
    \/ \E a \in ClusterWallets : UpsertWalletCluster(a)
    \/ \E a \in ClusterWallets, c \in ClusterMarkets, ts \in ClusterTimes : ClusterTrade(a, c, ts)

SpecCluster == InitCluster /\ [][NextCluster]_vars

\* the recorded trades of the members of a cluster in the market of the given
\* trade from the start of the lookback of that trade on
TradedInLookback(members, trade) ==
    {r \in unit.trades_seen :
        /\ r.proxy_wallet \in members
        /\ r.condition_id = trade.condition_id
        /\ r.timestamp_sec >= trade.timestamp_sec - ClusterLookbackHours * 3600}

\* whether a trade of a wallet is coordinated: the cluster of the wallet
\* records at least two members, at least two distinct wallets of it (the
\* current one included) traded the market in the lookback, and these trades
\* (the current one included) span at most 3600 s
Coordinated(cluster, members, trade) ==
    LET traded == TradedInLookback(members, trade) \cup {trade}
        stamps == {r.timestamp_sec : r \in traded}
    IN  /\ cluster # NoRow
        /\ cluster.wallet_count >= 2
        /\ Cardinality({r.proxy_wallet : r \in traded}) >= 2
        /\ SetMax(stamps) - SetMin(stamps) <= 3600

CacheTrade(slug) ==
    [proxyWallet |-> "wA", side |-> "BUY", conditionId |-> "m1", size |-> 100000,
     price |-> <<1, 2>>, timestamp |-> Now0 - 3600, outcome |-> "YES",
     transactionHash |-> "tx1", usdcSize |-> 50000, title |-> "trade title", slug |-> slug]

\* a row of market_map
MarketMapRow(title, slug, category, endDate, liquidityNum, updatedTS) ==
    [market_title |-> title, market_slug |-> slug, market_url |-> <<"market", slug>>,
     category |-> category, end_date |-> endDate, liquidity_num |-> liquidityNum,
     updated_ts |-> updatedTS]

\* the ages of a persisted entry: new, one second short of the TTL, the TTL,
\* older
CacheAges == {0, MarketTTL - 1, MarketTTL, MarketTTL + 3600}

\* the persisted entry of the market when the trade arrives: none, or one of a
\* sports market, of a small open market or of a market that has ended, of
\* each age
CachedRows ==
    {NoRow} \cup
    { MarketMapRow("cached title", "cached-slug", k[1], k[2], k[3], Now0 - age) :
         k \in {<<Sports, Now0 + 7200, 200000>>, <<Politics, Now0 + 7200, 60000>>,
                <<Politics, Now0 - 7200, 200000>>},
         age \in CacheAges }

\* the answers of GetMarketByConditionID: an error, or a market (an open one,
\* one that has ended, a sports market, one without end date and liquidity)
GammaAnswers ==
    { [ok |-> FALSE, question |-> "", slug |-> "", category |-> <<>>, endDate |-> 0,
       liquidityNum |-> 0] } \cup
    { [ok |-> TRUE, question |-> "question", slug |-> "gamma-slug", category |-> k[1],
       endDate |-> k[2], liquidityNum |-> k[3]] :
         k \in {<<Politics, Now0 + 7200, 100000>>, <<Politics, Now0 - 7200, 100000>>,
                <<Sports, Now0 + 7200, 100000>>, <<Politics, 0, 0>>} }

InitCache ==
    /\ PipelineInit
    /\ limiter = NoLimiter
    /\ scoring = NoScoring
    /\ recon = NoRecon
    /\ undelivered = <<>>
    /\ \E cached \in CachedRows, slug \in {"", "trade-slug"} :
          unit = [phase |-> "resolve", trade |-> CacheTrade(slug), market_map |-> cached,
                  cached |-> cached, calls |-> <<>>, marketInfo |-> NoRow,
                  rejected |-> FALSE, liquidityMultiplier |-> FOne]

\* variant: an entry is still returned when its age is exactly the TTL
freshWithinTTL(tnow, updatedTS) == tnow - updatedTS <= MarketTTL

\* time.Now().Unix()-cached.UpdatedTS < 86400
fresh(tnow, updatedTS) == tnow - updatedTS < MarketTTL

\* the MarketInfo resolveMarket returns on a fresh persisted entry
cachedInfo(cached) ==
    [title |-> cached.market_title, slug |-> cached.market_slug, url |-> cached.market_url,
     category |-> cached.category, endDate |-> cached.end_date,
     liquidityNum |-> cached.liquidity_num]

\* the MarketInfo resolveMarket builds when GetMarketByConditionID fails
fallbackInfo(trade) ==
    [title |-> trade.title, slug |-> trade.slug,
     url |-> IF trade.slug # "" THEN <<"market", trade.slug>>
             ELSE <<"search", trade.conditionId>>,
     category |-> <<>>, endDate |-> 0, liquidityNum |-> 0]

\* the MarketInfo resolveMarket builds from the answer of the upstream
fetchedInfo(market) ==
    [title |-> market.question, slug |-> market.slug, url |-> <<"market", market.slug>>,
     category |-> market.category, endDate |-> market.endDate,
     liquidityNum |-> market.liquidityNum]

\* resolveMarket for the trade under observation; market is the answer the
\* upstream gives if it is asked
ResolveMarket(market) ==
    /\ unit # NoUnit /\ "market_map" \in DOMAIN unit
    /\ unit.phase = "resolve"
    /\ LET cached == unit.market_map
       IN  IF cached # NoRow /\ fresh(now, cached.updated_ts)
           THEN unit' = [unit EXCEPT !.phase = "filter", !.marketInfo = cachedInfo(cached)]
           ELSE IF ~market.ok
           THEN unit' = [unit EXCEPT !.phase = "filter", !.calls = Append(@, market),
                                     !.marketInfo = fallbackInfo(unit.trade)]
           ELSE unit' = [unit EXCEPT
                    !.phase = "filter", !.calls = Append(@, market),
                    !.marketInfo = fetchedInfo(market),
                    !.market_map = MarketMapRow(market.question, market.slug, market.category,
                                                market.endDate, market.liquidityNum, now)]
    /\ UNCHANGED <<pipeline, limiter, scoring, recon, undelivered>>

\* processTrade after resolveMarket: the category and temporal filters and the
\* validation, and for a trade that passes the liquidity multiplier
FilterTrade ==
    /\ unit # NoUnit /\ "market_map" \in DOMAIN unit
    /\ unit.phase = "filter"
    /\ unit' = [unit EXCEPT
           !.phase = "done",
           !.rejected = Rejected(unit.trade, unit.marketInfo, now),
           !.liquidityMultiplier =
               IF Rejected(unit.trade, unit.marketInfo, now) THEN FOne
               ELSE liquidityMultiplier(calculateNotional(unit.trade),
                                        unit.marketInfo.liquidityNum)]
    /\ UNCHANGED <<pipeline, limiter, scoring, recon, undelivered>>

NextCache ==
    \/ \E market \in GammaAnswers : ResolveMarket(market)
    \/ FilterTrade

SpecCache == InitCache /\ [][NextCache]_vars

MaxStarts == 2      \* RecalculateWinRates runs that are started
MaxStatsFaults == 1 \* failures of the statistics update (SpecStatsFault only)

\* the goroutines of main that run RecalculateWinRates: one at startup, one
\* for a tick of winRateTicker
Runs == {1, 2}

\* the trades the log can hold when the runs overlap, and the answers of the
\* upstream: an error, a closed market with a winner, a closed market without
OverlapTrades == {t \in ReconTrades : t.transactionHash \in {"r1", "r4", "r5"}}
OverlapAnswers ==
    { a \in ReconAnswers :
         ~a.ok \/ (a.closed /\ a.outcomePrices \in
                      {Encode("json", <<<<"0", ".", "9", "8">>, <<"0", ".", "0", "2">>>>),
                       Encode("json", <<<<"0", ".", "9", "4">>, <<"0", ".", "0", "2">>>>)}) }

NoRun == [phase |-> "idle", seq |-> 0, conditionIDs |-> {}, conditionID |-> "",
          winningOutcome |-> <<>>]

\* the tables as in InitReconciler; unit holds the position of each run in the
\* loop of RecalculateWinRates, and as history the number of runs started when
\* the resolution of a market was stored, the markets whose statistics were
\* updated, and the runs that have finished
InitOverlap ==
    /\ now = Now0
    /\ app_state = 0
    /\ \E log \in SUBSET OverlapTrades : trades_seen = SetToBag({TradeRecord(t) : t \in log})
    /\ wallets = [a \in Wallets |-> NoRow]
    /\ alerts = <<>>
    /\ wallet_market_net = [k \in NetKeys |-> NoRow]
    /\ market_map = [c \in Conditions |-> NoRow]
    /\ sent = <<>>
    /\ workerPool = WalletLookupWorkers
    /\ walletLocks = [a \in Wallets |-> 0]
    /\ cyc = [phase |-> "idle", n |-> 0, lastProcessedTS |-> 0, batch |-> {}, err |-> ""]
    /\ pc = [w \in Worker |-> "idle"]
    /\ loc = [w \in Worker |-> LocInit]
    /\ eff = [w \in Worker |-> <<>>]
    /\ dispatched = {}
    /\ failed = {}
    /\ faults = 0
    /\ shutdown = "none"
    /\ limiter = NoLimiter
    /\ scoring = NoScoring
    /\ undelivered = <<>>
    /\ recon = [phase |-> "idle", runs |-> 0, conditionIDs |-> {},
                market_resolutions |-> [c \in ReconMarkets |-> NoRow],
                wallet_stats |-> [a \in ReconWallets |-> NoRow]]
    /\ unit = [run |-> [r \in Runs |-> NoRun],
               storedAt |-> [c \in ReconMarkets |-> 0],
               updated |-> {},
               finished |-> {},
               statsFaults |-> 0]

\* go func() { proc.RecalculateWinRates(ctx) }(): a run starts and lists the
\* markets of the trade log, whether or not the other run is under way
RunStart(r) ==
    /\ unit # NoUnit /\ "run" \in DOMAIN unit
    /\ unit.run[r].phase \in {"idle", "done"}
    /\ recon.runs < MaxStarts
    /\ recon' = [recon EXCEPT !.runs = @ + 1]
    /\ unit' = [unit EXCEPT !.run[r] = [NoRun EXCEPT !.phase = "loop",
                                                     !.seq = recon.runs + 1,
                                                     !.conditionIDs = GetAllConditionIDs]]
    /\ UNCHANGED <<pipeline, limiter, scoring, undelivered>>

\* the loop body up to the winner: GetMarketResolution, GetMarketByConditionID
\* and determineWinner; the run goes on to the next market unless the market
\* has no resolution row, is closed and has a winner
RunResolve(r, conditionID, market) ==
    /\ unit # NoUnit /\ "run" \in DOMAIN unit
    /\ unit.run[r].phase = "loop"
    /\ conditionID \in unit.run[r].conditionIDs
    /\ LET winningOutcome == determineWinner(market.outcomes, market.outcomePrices)
       IN  IF \/ GetMarketResolution(conditionID) # NoRow
              \/ ~market.ok
              \/ ~market.closed
              \/ winningOutcome = <<>>
           THEN unit' = [unit EXCEPT !.run[r].conditionIDs = @ \ {conditionID}]
           ELSE unit' = [unit EXCEPT !.run[r].conditionIDs = @ \ {conditionID},
                                     !.run[r].conditionID = conditionID,
                                     !.run[r].winningOutcome = winningOutcome,
                                     !.run[r].phase = "store"]
    /\ UNCHANGED <<pipeline, limiter, scoring, recon, undelivered>>

\* UpsertMarketResolution
RunStore(r) ==
    /\ unit # NoUnit /\ "run" \in DOMAIN unit
    /\ unit.run[r].phase = "store"
    /\ recon' = [recon EXCEPT !.market_resolutions[unit.run[r].conditionID] =
                                  [winning_outcome |-> unit.run[r].winningOutcome]]
    /\ unit' = [unit EXCEPT !.run[r].phase = "stats",
                            !.storedAt[unit.run[r].conditionID] =
                                IF GetMarketResolution(unit.run[r].conditionID) = NoRow
                                THEN recon.runs ELSE @]
    /\ UNCHANGED <<pipeline, limiter, scoring, undelivered>>

\* updateWalletStatsForResolution returns nil: the statistics of the wallets of
\* the market are updated
RunStats(r) ==
    /\ unit # NoUnit /\ "run" \in DOMAIN unit
    /\ unit.run[r].phase = "stats"
    /\ recon' = [recon EXCEPT !.wallet_stats =
                     updateWalletStatsForResolution(unit.run[r].conditionID,
                                                    unit.run[r].winningOutcome)]
    /\ unit' = [unit EXCEPT !.run[r].phase = "loop",
                            !.updated = @ \cup {unit.run[r].conditionID}]
    /\ UNCHANGED <<pipeline, limiter, scoring, undelivered>>

\* updateWalletStatsForResolution returns an error (GetTradesByConditionID
\* failed): it is logged and the loop goes on to the next market
RunStatsError(r) ==
    /\ unit # NoUnit /\ "run" \in DOMAIN unit
    /\ unit.run[r].phase = "stats"
    /\ unit.statsFaults < MaxStatsFaults
    /\ unit' = [unit EXCEPT !.run[r].phase = "loop", !.statsFaults = @ + 1]
    /\ UNCHANGED <<pipeline, limiter, scoring, recon, undelivered>>

\* the loop is through: RecalculateWinRates returns nil
RunReturn(r) ==
    /\ unit # NoUnit /\ "run" \in DOMAIN unit
    /\ unit.run[r].phase = "loop"
    /\ unit.run[r].conditionIDs = {}
    /\ unit' = [unit EXCEPT !.run[r].phase = "done",
                            !.finished = @ \cup {unit.run[r].seq}]
    /\ UNCHANGED <<pipeline, limiter, scoring, recon, undelivered>>

NextOverlap ==
    \/ \E r \in Runs : RunStart(r)
    \/ \E r \in Runs, c \in ReconMarkets, market \in OverlapAnswers : RunResolve(r, c, market)
    \/ \E r \in Runs : RunStore(r)
    \/ \E r \in Runs : RunStats(r)
    \/ \E r \in Runs : RunReturn(r)

SpecOverlap == InitOverlap /\ [][NextOverlap]_vars

NextStatsFault ==
    \/ NextOverlap
    \/ \E r \in Runs : RunStatsError(r)

SpecStatsFault == InitOverlap /\ [][NextStatsFault]_vars

\* no run is inside the loop of RecalculateWinRates
NoRunUnderWay ==
    \A r \in Runs : unit.run[r].phase \in {"idle", "done"}

\* C37: single attribution per market.  When no run is under way, whatever
\* runs there were and however they overlapped, the resolved count of every
\* wallet is the number of resolved markets in which it has recorded trades:
\* each of them has raised it by exactly 1.
C37_SingleAttribution ==
    (unit # NoUnit /\ "run" \in DOMAIN unit /\ NoRunUnderWay) =>
        \A a \in ReconWallets :
            LET stats == recon.wallet_stats[a]
            IN  (IF stats = NoRow THEN 0 ELSE stats.total_resolved_trades)
                    = Cardinality(ResolvedFor(a))

\* C40: resolution implies attribution.  When no run is under way and a run
\* that started after the resolution row of a market was stored has finished,
\* the statistics of the wallets of that market have been updated.
C40_ResolutionImpliesAttribution ==
    (unit # NoUnit /\ "run" \in DOMAIN unit /\ NoRunUnderWay) =>
        \A c \in ReconMarkets :
            (/\ GetMarketResolution(c) # NoRow
             /\ \E seq \in unit.finished : seq > unit.storedAt[c])
                => c \in unit.updated

\* ------------------------------------------------------------ first-trade flag
\* the pipeline with a record of the trades that were scored and of those
\* scored with the first-trade flag set
InitFirstTrade ==
    /\ PipelineInit
    /\ limiter = NoLimiter
    /\ scoring = NoScoring
    /\ recon = NoRecon
    /\ undelivered = <<>>
    /\ unit = [scored |-> {}, flagged |-> {}]

SpecFirstTrade == InitFirstTrade /\ [][Next]_vars

====
